---- MODULE Spec2Model ----
(***************************************************************************)
(* Model of the plugin manager (PluginManager, manager.ts) and of the      *)
(* dependency resolver (detectCircularDependency, topologicalSort).        *)
(*                                                                         *)
(* A loop or a sequence of awaits whose next step depends on the result of *)
(* the previous one is written as an operator that takes that result r as  *)
(* a parameter (cycleDfsNext, installDepsNext, useInstall, ...).           *)
(*                                                                         *)
(* A JavaScript Map is modelled as a sequence of entries in insertion      *)
(* order: Map.set on an existing key keeps the key's position, Map.delete  *)
(* followed by Map.set moves the key to the end.  Every public method of   *)
(* the manager is an operator from a manager value m to a result           *)
(* [m |-> manager after the call, threw |-> error thrown or NoError];      *)
(* one action per public method applies the operator to the variables.     *)
(***************************************************************************)
EXTENDS Integers, Sequences, FiniteSets, TLC

\* ------------------------------------------------------------------------
\* Bounds of the model
\* ------------------------------------------------------------------------

\* plugin names the integrator may use
Names == {"a", "b", "c"}

\* number of API calls in a behaviour of a specification that counts them
MaxCalls == 4

\* number of catch handlers of onConfigUpdate that may be waiting
MaxPending == 1

\* ------------------------------------------------------------------------
\* Values
\* ------------------------------------------------------------------------

\* pluginStates.get(name) of a name without entry
NoState == "undefined"

PluginState == {"registered", "installed", "active", "inactive", "uninstalled"}

\* the sequences over S of length n or less
RECURSIVE SeqsUpTo(_, _)
SeqsUpTo(S, n) ==
  IF n = 0 THEN {<<>>}
  ELSE LET shorter == SeqsUpTo(S, n - 1)
       IN shorter \cup {Append(s, x) : s \in shorter, x \in S}

Range(s) == {s[i] : i \in 1..Len(s)}

NoDup(s) == \A i, j \in 1..Len(s) : i # j => s[i] # s[j]

\* the dependencies arrays the descriptor of n may declare when the names are
\* N: every array of other names without a repetition
DepLists(N, n) == {s \in SeqsUpTo(N \ {n}, Cardinality(N \ {n})) : NoDup(s)}

\* a config is undefined or an object, Record<string, unknown>, whose
\* entries are a function from its keys to their values
NoConfig == [defined |-> FALSE, entries |-> <<>>]
ConfigObject(entries) == [defined |-> TRUE, entries |-> entries]

\* the keys and the values of the config objects
ConfigKeys == {"x", "y"}
ConfigValues == {1, 2}

\* every config object over the keys K
ConfigObjects(K) ==
  {ConfigObject(e) : e \in UNION {[D -> ConfigValues] : D \in SUBSET K}}

\* {...current, ...partial}: the entries of partial win
Spread(current, partial) ==
  ConfigObject([k \in DOMAIN current.entries \cup DOMAIN partial.entries |->
                  IF k \in DOMAIN partial.entries THEN partial.entries[k]
                  ELSE current.entries[k]])

\* runtime configs handed to setConfig
Configs == {ConfigObject([k \in {"x"} |-> 1])}

\* the validateConfig functions of the descriptors: none, one that rejects
\* a config whose x is 2, one that requires the key y
Validators == {"none", "rejectsX2", "requiresY"}

\* plugin.validateConfig(config)
validateConfig(validator, config) ==
  CASE validator = "rejectsX2" -> ~("x" \in DOMAIN config.entries /\ config.entries["x"] = 2)
    [] validator = "requiresY" -> "y" \in DOMAIN config.entries
    [] OTHER -> TRUE

\* the onConfigUpdate functions of the descriptors: none, one that returns,
\* one that throws, one that returns a promise that rejects
Updaters == {"none", "returns", "throws", "rejects"}

\* what the manager reads of a name without a descriptor
NoPlugin ==
  [dependencies |-> <<>>, hooks |-> {}, config |-> NoConfig, validateConfig |-> "none",
   onConfigUpdate |-> "none"]

\* what the manager reads of a descriptor
PluginOf(plugin) ==
  [dependencies |-> plugin.dependencies, hooks |-> plugin.hooks, config |-> plugin.config,
   validateConfig |-> plugin.validateConfig, onConfigUpdate |-> plugin.onConfigUpdate]

\* errors: every error value has the same fields
NoError ==
  [kind |-> "none", name |-> "", state |-> "", dep |-> "", cycle |-> <<>>,
   missing |-> <<>>]

Err(kind, name, state, dep) ==
  [kind |-> kind, name |-> name, state |-> state, dep |-> dep,
   cycle |-> <<>>, missing |-> <<>>]

CycleErr(cycle) ==
  [kind |-> "circularDependency", name |-> "", state |-> "", dep |-> "",
   cycle |-> cycle, missing |-> <<>>]

MissingErr(missing) ==
  [kind |-> "missingDependency", name |-> "", state |-> "", dep |-> "",
   cycle |-> <<>>, missing |-> missing]

HookErr(hook, name) == Err("hook", name, hook, "")

\* ------------------------------------------------------------------------
\* Map<string, V> as a sequence of [key, value] entries in insertion order
\* ------------------------------------------------------------------------

MapKeys(map) == [i \in 1..Len(map) |-> map[i].key]

MapHas(map, k) == \E i \in 1..Len(map) : map[i].key = k

MapIndex(map, k) == CHOOSE i \in 1..Len(map) : map[i].key = k

MapGet(map, k, undefined) ==
  IF MapHas(map, k) THEN map[MapIndex(map, k)].value ELSE undefined

MapSet(map, k, v) ==
  IF MapHas(map, k)
  THEN [map EXCEPT ![MapIndex(map, k)] = [key |-> k, value |-> v]]
  ELSE Append(map, [key |-> k, value |-> v])

MapDelete(map, k) == SelectSeq(map, LAMBDA e : e.key # k)

Reverse(s) == [i \in 1..Len(s) |-> s[Len(s) + 1 - i]]

IndexOf(s, x) == CHOOSE i \in 1..Len(s) : s[i] = x

\* plugin.dependencies of a registered name (absent array = no dependency)
DepsOf(plugins, name) ==
  MapGet(plugins, name, NoPlugin).dependencies

\* ------------------------------------------------------------------------
\* dependency-resolver.ts
\* ------------------------------------------------------------------------

\* the end of dfs that leaves pluginName on the recursion stack and the path
cycleLeave_keepsStack(r, pluginName) == r

\* dfs of detectCircularDependency: st = [visited, recursionStack, path],
\* result [st, cycle] where cycle = <<>> stands for null
\* the end of dfs for pluginName, r = [st, cycle] being the result of the
\* loop over its dependencies: a cycle found is returned, else pluginName
\* leaves the recursion stack and the path
cycleLeave(r, pluginName) ==
  IF r.cycle # <<>> THEN r
  ELSE [st |-> [visited |-> r.st.visited,
                recursionStack |-> r.st.recursionStack \ {pluginName},
                path |-> SubSeq(r.st.path, 1, Len(r.st.path) - 1)],
        cycle |-> <<>>]

RECURSIVE cycleDfs(_, _, _)
RECURSIVE cycleDfsDeps(_, _, _, _)
RECURSIVE cycleDfsNext(_, _, _, _)
RECURSIVE cycleRoots(_, _, _)
RECURSIVE cycleRootsNext(_, _, _)
cycleDfs(plugins, st, pluginName) ==
  IF pluginName \in st.recursionStack
  THEN [st |-> st,
        cycle |-> Append(SubSeq(st.path, IndexOf(st.path, pluginName), Len(st.path)),
                         pluginName)]
  ELSE IF pluginName \in st.visited
  THEN [st |-> st, cycle |-> <<>>]
  ELSE cycleLeave(cycleDfsDeps(plugins,
                               [visited |-> st.visited \cup {pluginName},
                                recursionStack |-> st.recursionStack \cup {pluginName},
                                path |-> Append(st.path, pluginName)],
                               DepsOf(plugins, pluginName), 1),
                  pluginName)

cycleDfsDeps(plugins, st, deps, i) ==
  IF i > Len(deps) THEN [st |-> st, cycle |-> <<>>]
  ELSE IF ~MapHas(plugins, deps[i]) THEN cycleDfsDeps(plugins, st, deps, i + 1)
  ELSE cycleDfsNext(plugins, cycleDfs(plugins, st, deps[i]), deps, i)

\* after dfs(deps[i]) gave r: a cycle found is returned, else the loop goes on
cycleDfsNext(plugins, r, deps, i) ==
  IF r.cycle # <<>> THEN r ELSE cycleDfsDeps(plugins, r.st, deps, i + 1)

cycleRoots(plugins, st, i) ==
  IF i > Len(plugins) THEN [st |-> st, cycle |-> <<>>]
  ELSE IF plugins[i].key \in st.visited THEN cycleRoots(plugins, st, i + 1)
  ELSE cycleRootsNext(plugins,
                      cycleDfs(plugins,
                               [visited |-> st.visited, recursionStack |-> {}, path |-> <<>>],
                               plugins[i].key),
                      i)

\* after dfs(plugins[i]) gave r: a cycle found is returned, else the loop goes on
cycleRootsNext(plugins, r, i) ==
  IF r.cycle # <<>> THEN r ELSE cycleRoots(plugins, r.st, i + 1)

\* the cycle found, <<>> for null
detectCircularDependency(plugins) ==
  cycleRoots(plugins, [visited |-> {}, recursionStack |-> {}, path |-> <<>>], 1).cycle

\* Record<pluginName, missingDeps[]> as a sequence of entries in key order
RECURSIVE missingFrom(_, _)
missingFrom(plugins, i) ==
  IF i > Len(plugins) THEN <<>>
  ELSE LET missingDeps == SelectSeq(plugins[i].value.dependencies,
                                    LAMBDA d : ~MapHas(plugins, d))
       IN (IF missingDeps # <<>>
           THEN <<[key |-> plugins[i].key, value |-> missingDeps]>>
           ELSE <<>>) \o missingFrom(plugins, i + 1)

detectMissingDependencies(plugins) == missingFrom(plugins, 1)

\* the end of dfs that puts the plugin before the plugins already sorted
sortLeave_first(st, pluginName) ==
  IF st.threw # NoError THEN st
  ELSE [st EXCEPT !.visiting = @ \ {pluginName},
                  !.visited = @ \cup {pluginName},
                  !.sorted = <<pluginName>> \o @]

\* the end of dfs for pluginName, its dependencies done: st is unchanged when
\* one of them threw
sortLeave(st, pluginName) ==
  IF st.threw # NoError THEN st
  ELSE [st EXCEPT !.visiting = @ \ {pluginName},
                  !.visited = @ \cup {pluginName},
                  !.sorted = Append(@, pluginName)]

\* dfs of topologicalSort: st = [visited, visiting, sorted, threw]
RECURSIVE sortDfs(_, _, _, _)
RECURSIVE sortDfsDeps(_, _, _, _, _)
sortDfs(plugins, targetPlugins, st, pluginName) ==
  IF st.threw # NoError THEN st
  ELSE IF pluginName \in st.visiting
  THEN [st EXCEPT !.threw = Err("circularDependencyCycle", pluginName, "", "")]
  ELSE IF pluginName \in st.visited THEN st
  ELSE sortLeave(sortDfsDeps(plugins, targetPlugins,
                             [st EXCEPT !.visiting = @ \cup {pluginName}],
                             DepsOf(plugins, pluginName), 1),
                 pluginName)

sortDfsDeps(plugins, targetPlugins, st, deps, i) ==
  IF i > Len(deps) \/ st.threw # NoError THEN st
  ELSE IF deps[i] \in Range(targetPlugins)
  THEN sortDfsDeps(plugins, targetPlugins,
                   sortDfs(plugins, targetPlugins, st, deps[i]), deps, i + 1)
  ELSE sortDfsDeps(plugins, targetPlugins, st, deps, i + 1)

RECURSIVE sortTargets(_, _, _, _)
sortTargets(plugins, targetPlugins, st, i) ==
  IF i > Len(targetPlugins) \/ st.threw # NoError THEN st
  ELSE IF targetPlugins[i] \in st.visited
  THEN sortTargets(plugins, targetPlugins, st, i + 1)
  ELSE sortTargets(plugins, targetPlugins,
                   sortDfs(plugins, targetPlugins, st, targetPlugins[i]), i + 1)

\* the result of topologicalSort, [threw, sorted]: the error of the cycle or
\* of the missing dependencies, else what the sort st gave
sortChecked(cycle, missing, st) ==
  IF cycle # <<>> THEN [threw |-> CycleErr(cycle), sorted |-> <<>>]
  ELSE IF missing # <<>> THEN [threw |-> MissingErr(missing), sorted |-> <<>>]
  ELSE [threw |-> st.threw, sorted |-> st.sorted]

\* [threw, sorted]: the order, or the error thrown
topologicalSort(plugins, pluginNames) ==
  sortChecked(detectCircularDependency(plugins),
              detectMissingDependencies(plugins),
              sortTargets(plugins, pluginNames,
                          [visited |-> {}, visiting |-> {}, sorted |-> <<>>,
                           threw |-> NoError], 1))

\* ------------------------------------------------------------------------
\* manager.ts: the manager value and its methods
\* ------------------------------------------------------------------------

\* the value a call returns: undefined, or a value of some kind
Result(kind, value) == [kind |-> kind, value |-> value]
NoResult == Result("undefined", "")

\* a result of a method: the manager after the call and the error thrown
Ok(m) == [m |-> m, threw |-> NoError]
Throw(m, e) == [m |-> m, threw |-> e]

\* the events the listeners of the model listen to
ListenedEvents ==
  {"plugin:registered", "plugin:installed", "plugin:activated", "plugin:deactivated",
   "plugin:uninstalled"}

\* the listeners of the model: l returns, t throws
Listeners == {"l", "t"}

\* manager.on(event, listener): the listeners of an event are a Set in
\* insertion order
on(m, event, listener) ==
  Ok([m EXCEPT !.listeners[event] =
        IF listener \in Range(@) THEN @ ELSE Append(@, listener)])

\* manager.off(event, listener): the listener leaves the Set of the event,
\* and an event without listeners has no entry
off(m, event, listener) ==
  Ok([m EXCEPT !.listeners[event] = SelectSeq(@, LAMBDA l : l # listener)])

\* listener(...args) for the event emitted: the call is noted, t throws
callListener(m, type, name, listener) ==
  [m |-> [m EXCEPT !.notified = Append(@, [type |-> type, name |-> name,
                                            listener |-> listener])],
   threw |-> IF listener = "t" THEN Err("listener", name, type, "") ELSE NoError]

\* the loop of emit that lets the error of a listener end it: what the
\* listener throws leaves emit
RECURSIVE emitListeners_noCatch(_, _, _, _, _)
emitListeners_noCatch(m, type, name, eventListeners, i) ==
  IF i > Len(eventListeners) THEN Ok(m)
  ELSE IF callListener(m, type, name, eventListeners[i]).threw # NoError
  THEN callListener(m, type, name, eventListeners[i])
  ELSE emitListeners_noCatch(callListener(m, type, name, eventListeners[i]).m,
                             type, name, eventListeners, i + 1)

\* the loop of emit over the listeners of the event, from position i: what a
\* listener throws is caught and the loop goes on; emit returns after the
\* last listener
RECURSIVE emitListeners(_, _, _, _, _)
emitListeners(m, type, name, eventListeners, i) ==
  IF i > Len(eventListeners) THEN Ok(m)
  ELSE emitListeners(callListener(m, type, name, eventListeners[i]).m,
                     type, name, eventListeners, i + 1)

\* this.eventEmitter.emit(type, name, ...), with the event recorded: the
\* result of the loop over the listeners, so what emit throws, if it does,
\* leaves the method that called it
emit(m, type, name) ==
  emitListeners([m EXCEPT !.events = Append(@, [type |-> type, name |-> name]),
                          !.emittedAt = Append(@, Len(m.writes))],
                type, name,
                IF type \in DOMAIN m.listeners THEN m.listeners[type] ELSE <<>>, 1)

getState(m, name) == MapGet(m.pluginStates, name, NoState)

\* this.pluginStates.set(name, state), with the write recorded
setState(m, name, state) ==
  [m EXCEPT !.pluginStates = MapSet(@, name, state),
            !.writes = Append(@, [name |-> name, from |-> getState(m, name), to |-> state])]

\* this.pluginStates.delete(name), with the write recorded when an entry goes
deleteState(m, name) ==
  [m EXCEPT !.pluginStates = MapDelete(@, name),
            !.writes = IF MapHas(m.pluginStates, name)
                       THEN Append(@, [name |-> name, from |-> getState(m, name),
                                       to |-> NoState])
                       ELSE @]

\* the catch blocks: record the error against the plugin and emit
\* plugin:error; the result is that of emit
recordError(m, name, e) ==
  emit([m EXCEPT !.pluginErrors[name] = e], "plugin:error", name)

getRegisteredPlugins(m) == MapKeys(m.plugins)

\* getActivePlugins that also returns the inactive plugins
getActivePlugins_all(m) ==
  LET entries == SelectSeq(m.pluginStates,
                           LAMBDA e : e.value \in {"active", "inactive"}
                                      /\ MapHas(m.plugins, e.key))
  IN MapKeys(entries)

\* the names of the active plugins, in the key order of pluginStates
getActivePlugins(m) ==
  LET entries == SelectSeq(m.pluginStates,
                           LAMBDA e : e.value = "active" /\ MapHas(m.plugins, e.key))
  IN MapKeys(entries)

\* the replace branch of register: what the manager holds of the old plugin
\* is deleted and plugin:replaced is emitted
registerReplace(m, plugin) ==
  emit([deleteState(m, plugin.name) EXCEPT !.pluginServices = @ \ {plugin.name},
                                           !.pluginConfigs[plugin.name] = NoConfig,
                                           !.pluginErrors[plugin.name] = NoError],
       "plugin:replaced", plugin.name)

\* the end of register after r, the replace branch or nothing: the
\* descriptor and the state registered are set and plugin:registered is
\* emitted
registerSet(r, plugin) ==
  IF r.threw # NoError THEN r
  ELSE emit(setState([r.m EXCEPT !.plugins = MapSet(@, plugin.name, PluginOf(plugin))],
                     plugin.name, "registered"),
            "plugin:registered", plugin.name)

\* register that keeps the runtime config of a replaced plugin
register_keepsConfig(m, plugin, replace) ==
  IF MapHas(m.plugins, plugin.name) /\ ~replace
  THEN Throw(m, Err("pluginAlreadyRegistered", plugin.name, "", ""))
  ELSE registerSet(IF MapHas(m.plugins, plugin.name)
                   THEN emit([deleteState(m, plugin.name)
                                EXCEPT !.pluginServices = @ \ {plugin.name},
                                       !.pluginErrors[plugin.name] = NoError],
                             "plugin:replaced", plugin.name)
                   ELSE Ok(m),
                   plugin)

\* register that overwrites an existing name instead of rejecting it
register_overwrites(m, plugin, replace) ==
  registerSet(IF MapHas(m.plugins, plugin.name) /\ replace
              THEN registerReplace(m, plugin)
              ELSE Ok(m),
              plugin)

register(m, plugin, replace) ==
  IF MapHas(m.plugins, plugin.name) /\ ~replace
  THEN Throw(m, Err("pluginAlreadyRegistered", plugin.name, "", ""))
  ELSE registerSet(IF MapHas(m.plugins, plugin.name) THEN registerReplace(m, plugin)
                   ELSE Ok(m),
                   plugin)

\* the dependency check that also accepts an inactive dependency
RECURSIVE firstNotActive_acceptsInactive(_, _, _)
firstNotActive_acceptsInactive(m, deps, i) ==
  IF i > Len(deps) THEN ""
  ELSE IF getState(m, deps[i]) \notin {"active", "inactive"} THEN deps[i]
  ELSE firstNotActive_acceptsInactive(m, deps, i + 1)

\* the first dependency of deps, from position i, that is not active; "" if none
RECURSIVE firstNotActive(_, _, _)
firstNotActive(m, deps, i) ==
  IF i > Len(deps) THEN ""
  ELSE IF getState(m, deps[i]) # "active" THEN deps[i]
  ELSE firstNotActive(m, deps, i + 1)

\* this.pluginErrors.delete(name) after r, the emit of the event of the new
\* state
errorDeleted(r, name) ==
  IF r.threw # NoError THEN r ELSE Ok([r.m EXCEPT !.pluginErrors[name] = NoError])

\* activate that also accepts a plugin that is only registered
activate_fromRegistered(m, name) ==
  IF ~MapHas(m.plugins, name) THEN Throw(m, Err("pluginNotRegistered", name, "", ""))
  ELSE IF getState(m, name) \notin {"registered", "installed", "inactive"}
  THEN Throw(m, Err("pluginWrongStateActivate", name, getState(m, name), ""))
  ELSE LET dep == firstNotActive(m, DepsOf(m.plugins, name), 1)
       IN IF dep # ""
          THEN Throw(m, Err("pluginDependencyNotActive", name, getState(m, dep), dep))
          ELSE errorDeleted(emit(setState(m, name, "active"), "plugin:activated", name),
                            name)

\* activate that leaves the recorded error of the plugin in place
activate_keepsError(m, name) ==
  IF ~MapHas(m.plugins, name) THEN Throw(m, Err("pluginNotRegistered", name, "", ""))
  ELSE IF getState(m, name) \notin {"installed", "inactive"}
  THEN Throw(m, Err("pluginWrongStateActivate", name, getState(m, name), ""))
  ELSE LET dep == firstNotActive(m, DepsOf(m.plugins, name), 1)
       IN IF dep # ""
          THEN Throw(m, Err("pluginDependencyNotActive", name, getState(m, dep), dep))
          ELSE emit(setState(m, name, "active"), "plugin:activated", name)

activate(m, name) ==
  IF ~MapHas(m.plugins, name) THEN Throw(m, Err("pluginNotRegistered", name, "", ""))
  ELSE IF getState(m, name) \notin {"installed", "inactive"}
  THEN Throw(m, Err("pluginWrongStateActivate", name, getState(m, name), ""))
  ELSE LET dep == firstNotActive(m, DepsOf(m.plugins, name), 1)
       IN IF dep # ""
          THEN Throw(m, Err("pluginDependencyNotActive", name, getState(m, dep), dep))
          ELSE errorDeleted(emit(setState(m, name, "active"), "plugin:activated", name),
                            name)

\* deactivate without the check of the current state
deactivate_noStateCheck(m, name) ==
  IF ~MapHas(m.plugins, name) THEN Throw(m, Err("pluginNotRegistered", name, "", ""))
  ELSE errorDeleted(emit(setState(m, name, "inactive"), "plugin:deactivated", name), name)

deactivate(m, name) ==
  IF ~MapHas(m.plugins, name) THEN Throw(m, Err("pluginNotRegistered", name, "", ""))
  ELSE IF getState(m, name) # "active"
  THEN Throw(m, Err("pluginWrongStateDeactivate", name, getState(m, name), ""))
  ELSE errorDeleted(emit(setState(m, name, "inactive"), "plugin:deactivated", name), name)

\* the end of uninstall after r, the emit of plugin:uninstalled: the
\* recorded error and the runtime config are deleted
uninstallCleared(r, name) ==
  IF r.threw # NoError THEN r
  ELSE Ok([r.m EXCEPT !.pluginErrors[name] = NoError, !.pluginConfigs[name] = NoConfig])

\* the rest of uninstall that also removes the descriptor from the registry
uninstallPlugin_removesDescriptor(r, name) ==
  IF r.threw # NoError THEN r
  ELSE uninstallCleared(emit(setState([r.m EXCEPT !.pluginServices = @ \ {name},
                                                  !.plugins = MapDelete(@, name)],
                                      name, "uninstalled"),
                             "plugin:uninstalled", name),
                        name)

\* the rest of uninstall after r, the deactivation of an active plugin
uninstallPlugin(r, name) ==
  IF r.threw # NoError THEN r
  ELSE uninstallCleared(emit(setState([r.m EXCEPT !.pluginServices = @ \ {name}],
                                      name, "uninstalled"),
                             "plugin:uninstalled", name),
                        name)

\* stopHotReload(): the watchers are closed and the hot reload manager is
\* dropped
stopHotReload(m) == Ok([m EXCEPT !.hotReloadManager = FALSE])

dispose(m) ==
  Ok([stopHotReload(m).m
      EXCEPT !.listeners = [e \in DOMAIN @ |-> <<>>],
             !.plugins = <<>>,
             !.pluginStates = <<>>,
             !.pluginServices = {},
             !.pluginConfigs = [n \in DOMAIN @ |-> NoConfig],
             !.pluginErrors = [n \in DOMAIN @ |-> NoError]])

\* the end of installPlugin after r, the emit of plugin:installed: the
\* plugin is activated when autoActivate is set
installActivate(r, name) ==
  IF r.threw # NoError THEN r
  ELSE IF r.m.options.autoActivate THEN activate(r.m, name)
  ELSE r

\* installPlugin that emits plugin:installed before it sets the state
installPlugin_emitsFirst(m, name) ==
  IF emit(m, "plugin:installed", name).threw # NoError THEN emit(m, "plugin:installed", name)
  ELSE installActivate(Ok(setState([emit(m, "plugin:installed", name).m
                                      EXCEPT !.pluginServices = @ \cup {name}],
                                   name, "installed")),
                       name)

installPlugin(m, name) ==
  installActivate(emit([setState(m, name, "installed")
                          EXCEPT !.pluginServices = @ \cup {name}],
                       "plugin:installed", name),
                  name)

\* the collection that stops at the direct dependencies
collectRelated_direct(plugins, related, queue) ==
  related \o SelectSeq(DepsOf(plugins, Head(queue)), LAMBDA d : d \notin Range(related))

\* the breadth-first collection of resolveInstallOrder: related is the Set
\* relatedPlugins in insertion order
RECURSIVE collectRelated(_, _, _)
collectRelated(plugins, related, queue) ==
  IF queue = <<>> THEN related
  ELSE LET fresh == SelectSeq(DepsOf(plugins, Head(queue)),
                              LAMBDA d : d \notin Range(related))
       IN collectRelated(plugins, related \o fresh, Tail(queue) \o fresh)

resolveInstallOrder(m, name) ==
  topologicalSort(m.plugins, collectRelated(m.plugins, <<name>>, <<name>>))

\* the breadth-first collection of validateDependencies: relatedPlugins is
\* a Map in insertion order; a dependency enters the queue when it is a key
\* of plugins and was not visited
RECURSIVE collectReachable(_, _, _, _)
collectReachable(plugins, relatedPlugins, queue, visited) ==
  IF queue = <<>> THEN relatedPlugins
  ELSE IF Head(queue) \in visited
  THEN collectReachable(plugins, relatedPlugins, Tail(queue), visited)
  ELSE IF ~MapHas(plugins, Head(queue))
  THEN collectReachable(plugins, relatedPlugins, Tail(queue), visited \cup {Head(queue)})
  ELSE collectReachable(plugins,
                        Append(relatedPlugins, plugins[MapIndex(plugins, Head(queue))]),
                        Tail(queue)
                          \o SelectSeq(DepsOf(plugins, Head(queue)),
                                       LAMBDA dep : MapHas(plugins, dep)
                                                    /\ dep \notin visited \cup {Head(queue)}),
                        visited \cup {Head(queue)})

\* the checks of validateDependencies on the plugin map checked: the error
\* of the cycle found, else that of the missing dependencies; all tells the
\* errors of the whole registry from those of one name
validateChecked(m, cycle, missing, all, name) ==
  IF cycle # <<>>
  THEN Throw(m, [CycleErr(cycle) EXCEPT !.name = name,
                                        !.kind = IF all THEN "circularDependencyAll"
                                                 ELSE "circularDependencySingle"])
  ELSE IF missing # <<>>
  THEN Throw(m, [MissingErr(missing) EXCEPT !.name = name,
                                            !.kind = IF all THEN "missingDependencyAll"
                                                     ELSE "missingDependencySingle"])
  ELSE Ok(m)

\* the checks on the plugin map checked
validateMap(m, checked, all, name) ==
  validateChecked(m, detectCircularDependency(checked), detectMissingDependencies(checked),
                  all, name)

\* validateDependencies that checks the whole registry whatever the name
validateDependencies_wholeRegistry(m, given, name) ==
  IF given /\ ~MapHas(m.plugins, name)
  THEN Throw(m, Err("pluginNotRegistered", name, "", ""))
  ELSE validateMap(m, m.plugins, TRUE, "")

\* validateDependencies(name), validateDependencies() when given is FALSE
validateDependencies(m, given, name) ==
  IF ~given THEN validateMap(m, m.plugins, TRUE, "")
  ELSE IF ~MapHas(m.plugins, name) THEN Throw(m, Err("pluginNotRegistered", name, "", ""))
  ELSE validateMap(m, collectReachable(m.plugins, <<>>, <<name>>, {}),
                   FALSE, name)

\* the runtime config when the name has one, else the config of its
\* descriptor, undefined without a descriptor
getConfig(m, name) ==
  IF m.pluginConfigs[name].defined THEN m.pluginConfigs[name]
  ELSE MapGet(m.plugins, name, NoPlugin).config

\* setConfig that saves the config before it validates it
setConfig_savesFirst(m, name, config) ==
  IF ~MapHas(m.plugins, name) THEN Throw(m, Err("pluginNotRegistered", name, "", ""))
  ELSE IF ~validateConfig(MapGet(m.plugins, name, NoPlugin).validateConfig, config)
  THEN Throw([m EXCEPT !.pluginConfigs[name] = config],
             Err("pluginConfigValidationFailed", name, "", ""))
  ELSE emit([m EXCEPT !.pluginConfigs[name] = config], "plugin:config:updated", name)

\* the end of setConfig after r, the emit of plugin:config:updated with the
\* config saved: onConfigUpdate, when the plugin has it, is called; what it
\* throws leaves setConfig, the rejection of what it returns is caught later
configUpdated(r, name) ==
  IF r.threw # NoError THEN r
  ELSE IF MapGet(r.m.plugins, name, NoPlugin).onConfigUpdate = "none" THEN r
  ELSE IF MapGet(r.m.plugins, name, NoPlugin).onConfigUpdate = "throws"
  THEN Throw([r.m EXCEPT !.hookLog = Append(@, [hook |-> "onConfigUpdate", name |-> name])],
             HookErr("onConfigUpdate", name))
  ELSE Ok([r.m EXCEPT !.hookLog = Append(@, [hook |-> "onConfigUpdate", name |-> name])])

setConfig(m, name, config) ==
  IF ~MapHas(m.plugins, name) THEN Throw(m, Err("pluginNotRegistered", name, "", ""))
  ELSE IF ~validateConfig(MapGet(m.plugins, name, NoPlugin).validateConfig, config)
  THEN Throw(m, Err("pluginConfigValidationFailed", name, "", ""))
  ELSE configUpdated(emit([m EXCEPT !.pluginConfigs[name] = config],
                          "plugin:config:updated", name),
                     name)

\* updateConfig that writes the partial config alone
updateConfig_noMerge(m, name, partialConfig) == setConfig(m, name, partialConfig)

\* the config getConfig returned, or {} for undefined
orEmpty(currentConfig) ==
  IF currentConfig.defined THEN currentConfig ELSE ConfigObject(<<>>)

updateConfig(m, name, partialConfig) ==
  setConfig(m, name, Spread(orEmpty(getConfig(m, name)), partialConfig))

\* ------------------------------------------------------------------------
\* manager.ts: the asynchronous methods, run from one await to the next
\* ------------------------------------------------------------------------

\* A call of an asynchronous method is a stack of frames, the frame of the
\* method called last first. A frame holds the method, the place pc where it
\* waits and its local variables. A step of a frame runs the method from
\* where it waits up to its next await, its return or its throw.

\* what a frame is resumed with: it is entered ("call"), the promise it
\* awaits is settled with the error threw, NoError when fulfilled
\* ("settled"), or the promise a plugin hook returned is settled ("hook")
CallSig == [kind |-> "call", threw |-> NoError]
Settled(e) == [kind |-> "settled", threw |-> e]
HookSig == [kind |-> "hook", threw |-> NoError]

NoFrame == [op |-> "none"]

\* what a step of a frame ends with. `await p`, p settled with e, f waiting
Await(m, f, e) == [do |-> "await", m |-> m, frame |-> f, callee |-> NoFrame, threw |-> e]
\* `await plugin.onX(...)`, the hook invoked, f waiting for its promise
AwaitHook(m, f) == [do |-> "hook", m |-> m, frame |-> f, callee |-> NoFrame, threw |-> NoError]
\* `await this.method(...)` of an asynchronous method with the frame g
Invoke(m, f, g) == [do |-> "invoke", m |-> m, frame |-> f, callee |-> g, threw |-> NoError]
\* return, and throw e
Return(m) == [do |-> "return", m |-> m, frame |-> NoFrame, callee |-> NoFrame, threw |-> NoError]
Raise(m, e) == [do |-> "return", m |-> m, frame |-> NoFrame, callee |-> NoFrame, threw |-> e]

\* `await this.installPlugin(...)`: installPlugin ran up to its end or its
\* throw and gave r, its promise is settled with what it threw
AwaitResult(r, f) == Await(r.m, f, r.threw)

\* `await this.activate(...)`, `await this.deactivate(...)`: the method is
\* synchronous and gave r; what it threw leaves the caller at once, else
\* the caller awaits the value undefined
AwaitSync(r, f) == IF r.threw # NoError THEN Raise(r.m, r.threw) ELSE Await(r.m, f, NoError)

\* the method ends after the statement that gave r: it returns, or throws
\* what the statement threw
ReturnFrom(r) == IF r.threw # NoError THEN Raise(r.m, r.threw) ELSE Return(r.m)

\* `throw e` after the statement that gave r, unless the statement threw
RaiseFrom(r, e) == IF r.threw # NoError THEN Raise(r.m, r.threw) ELSE Raise(r.m, e)

\* the frame of install(name)
Installing(name) ==
  [op |-> "install", pc |-> "start", name |-> name, installOrder |-> <<>>, at |-> 0]

\* the catch block of install, e caught
installCatch(m, f, e) ==
  IF m.options.continueOnError THEN ReturnFrom(recordError(m, f.name, e))
  ELSE RaiseFrom(recordError(m, f.name, e), e)

\* the loop of install over installOrder from position i up to its next
\* await: the installation of the next registered dependency, past the end
\* that of name itself
RECURSIVE installLoop(_, _, _)
installLoop(m, f, i) ==
  IF i > Len(f.installOrder)
  THEN AwaitResult(installPlugin(m, f.name), [f EXCEPT !.pc = "installPlugin", !.at = i])
  ELSE IF f.installOrder[i] # f.name /\ getState(m, f.installOrder[i]) = "registered"
  THEN AwaitResult(installPlugin(m, f.installOrder[i]),
                   [f EXCEPT !.pc = "installPlugin", !.at = i])
  ELSE installLoop(m, f, i + 1)

\* the try block of install, installOrder = [threw, sorted] resolved
installTry(m, f, installOrder) ==
  IF installOrder.threw # NoError THEN installCatch(m, f, installOrder.threw)
  ELSE installLoop(m, [f EXCEPT !.installOrder = installOrder.sorted], 1)

\* install(name) from its call up to its first await
installStart(m, f) ==
  IF ~MapHas(m.plugins, f.name) THEN Raise(m, Err("pluginNotRegistered", f.name, "", ""))
  ELSE IF getState(m, f.name) # "registered"
  THEN Raise(m, Err("pluginWrongStateInstall", f.name, getState(m, f.name), ""))
  ELSE installTry(m, f, resolveInstallOrder(m, f.name))

\* install after `await this.installPlugin(...)`: a rejection goes to the
\* catch block, after the installation of name the call returns, else the
\* loop goes on
installResume(m, f, sig) ==
  IF sig.threw # NoError THEN installCatch(m, f, sig.threw)
  ELSE IF f.at > Len(f.installOrder) THEN Return(m)
  ELSE installLoop(m, f, f.at + 1)

install(m, f, sig) ==
  IF f.pc = "start" THEN installStart(m, f) ELSE installResume(m, f, sig)

\* the frame of use(plugin)
Using(plugin) == [op |-> "use", pc |-> "start", name |-> plugin.name, plugin |-> plugin]

\* the third step of use that activates whatever the state is
useActivate_always(m, f) ==
  AwaitSync(activate(m, f.name), [f EXCEPT !.pc = "activate"])

\* the third step of use: activate when installed or inactive
useActivate(m, f) ==
  IF getState(m, f.name) \in {"installed", "inactive"}
  THEN AwaitSync(activate(m, f.name), [f EXCEPT !.pc = "activate"])
  ELSE Return(m)

\* the second step of use: install when registered
useInstall(m, f) ==
  IF getState(m, f.name) = "registered"
  THEN Invoke(m, [f EXCEPT !.pc = "install"], Installing(f.name))
  ELSE useActivate(m, f)

\* use after r, the registration of a plugin whose name is not registered
\* yet, or nothing
useRegister(r, f) ==
  IF r.threw # NoError THEN Raise(r.m, r.threw) ELSE useInstall(r.m, f)

use(m, f, sig) ==
  IF f.pc = "start"
  THEN useRegister(IF MapHas(m.plugins, f.name) THEN Ok(m) ELSE register(m, f.plugin, FALSE), f)
  ELSE IF sig.threw # NoError THEN Raise(m, sig.threw)
  ELSE IF f.pc = "install" THEN useActivate(m, f)
  ELSE Return(m)

\* the frame of uninstall(name)
Uninstalling(name) == [op |-> "uninstall", pc |-> "start", name |-> name]

\* uninstall that does not return early for an uninstalled plugin
uninstallStart_noEarlyReturn(m, f) ==
  IF ~MapHas(m.plugins, f.name) THEN Raise(m, Err("pluginNotRegistered", f.name, "", ""))
  ELSE IF getState(m, f.name) = "active"
  THEN AwaitSync(deactivate(m, f.name), [f EXCEPT !.pc = "deactivate"])
  ELSE ReturnFrom(uninstallPlugin(Ok(m), f.name))

\* uninstall(name) from its call up to its await or its end
uninstallStart(m, f) ==
  IF ~MapHas(m.plugins, f.name) THEN Raise(m, Err("pluginNotRegistered", f.name, "", ""))
  ELSE IF getState(m, f.name) = "uninstalled" THEN Return(m)
  ELSE IF getState(m, f.name) = "active"
  THEN AwaitSync(deactivate(m, f.name), [f EXCEPT !.pc = "deactivate"])
  ELSE ReturnFrom(uninstallPlugin(Ok(m), f.name))

uninstall(m, f, sig) ==
  IF f.pc = "start" THEN uninstallStart(m, f)
  ELSE ReturnFrom(uninstallPlugin(Ok(m), f.name))

\* the Plugin objects getActivePlugins returns: name and descriptor of the
\* active plugins, as they are when it is called
activePluginObjects(m) ==
  [i \in 1..Len(getActivePlugins(m)) |->
     [key |-> getActivePlugins(m)[i],
      value |-> MapGet(m.plugins, getActivePlugins(m)[i], NoPlugin)]]

\* the frame of a trigger method: the hook it calls, the app event it emits,
\* what it does with what a hook returns (kind), whether it walks the active
\* plugins in reverse, whether it re-throws what a hook throws, and what the
\* hooks do during the call: the plugins whose hook fails (throwers), those
\* of them whose hook throws before it returns a promise (syncThrowers; the
\* hook of the others returns a promise that rejects), the plugins whose
\* hook returns a Response (responders), the answers of the onHealthCheck
\* hooks, and the routes passed in
Triggering(hook, type, kind, reverse, rethrow, throwers, syncThrowers, responders, answers, routes) ==
  [op |-> "trigger", pc |-> "start", hook |-> hook, type |-> type, kind |-> kind,
   reverse |-> reverse, rethrow |-> rethrow, throwers |-> throwers,
   syncThrowers |-> syncThrowers, responders |-> responders, answers |-> answers, routes |-> routes,
   activePlugins |-> <<>>, at |-> 0, overallStatus |-> "healthy"]

NoAnswers == [n \in {} |-> "healthy"]

triggerInit(m, throwers, syncThrowers) ==
  Triggering("onInit", "app:init", "each", FALSE, ~m.options.continueOnError,
             throwers, syncThrowers, {}, NoAnswers, <<>>)

triggerStart(m, throwers, syncThrowers) ==
  Triggering("onStart", "app:start", "each", FALSE, ~m.options.continueOnError,
             throwers, syncThrowers, {}, NoAnswers, <<>>)

triggerStop(m, throwers, syncThrowers) ==
  Triggering("onStop", "app:stop", "each", TRUE, ~m.options.continueOnError,
             throwers, syncThrowers, {}, NoAnswers, <<>>)

triggerShutdown(m, throwers, syncThrowers) ==
  Triggering("onShutdown", "app:shutdown", "each", TRUE, FALSE, throwers, syncThrowers, {},
             NoAnswers, <<>>)

triggerRequest(m, throwers, syncThrowers, responders) ==
  Triggering("onRequest", "app:request", "first", FALSE, ~m.options.continueOnError,
             throwers, syncThrowers, responders, NoAnswers, <<>>)

triggerResponse(m, throwers, syncThrowers) ==
  Triggering("onResponse", "app:response", "each", FALSE, ~m.options.continueOnError,
             throwers, syncThrowers, {}, NoAnswers, <<>>)

\* triggerError that re-throws as the other triggers do
triggerError_rethrows(m, throwers, syncThrowers, responders) ==
  Triggering("onError", "app:error", "first", FALSE, ~m.options.continueOnError,
             throwers, syncThrowers, responders, NoAnswers, <<>>)

\* an error of an onError hook is recorded and never re-thrown
triggerError(m, throwers, syncThrowers, responders) ==
  Triggering("onError", "app:error", "first", FALSE, FALSE, throwers, syncThrowers,
             responders, NoAnswers, <<>>)

triggerRoute(m, throwers, syncThrowers, routes) ==
  Triggering("onRoute", "app:route", "route", FALSE, ~m.options.continueOnError,
             throwers, syncThrowers, {}, NoAnswers, routes)

triggerBuild(m, throwers, syncThrowers) ==
  Triggering("onBuild", "app:build", "each", FALSE, ~m.options.continueOnError,
             throwers, syncThrowers, {}, NoAnswers, <<>>)

triggerBuildComplete(m, throwers, syncThrowers) ==
  Triggering("onBuildComplete", "app:build:complete", "each", FALSE,
             ~m.options.continueOnError, throwers, syncThrowers, {}, NoAnswers, <<>>)

triggerSocket(m, throwers, syncThrowers) ==
  Triggering("onSocket", "app:socket", "each", FALSE, ~m.options.continueOnError,
             throwers, syncThrowers, {}, NoAnswers, <<>>)

triggerSocketClose(m, throwers, syncThrowers) ==
  Triggering("onSocketClose", "app:socket:close", "each", FALSE,
             ~m.options.continueOnError, throwers, syncThrowers, {}, NoAnswers, <<>>)

\* an error of an onHotReload hook is recorded and never re-thrown
triggerHotReload(m, throwers, syncThrowers) ==
  Triggering("onHotReload", "app:hotreload", "each", FALSE, FALSE, throwers, syncThrowers,
             {}, NoAnswers, <<>>)

\* what onHealthCheck of a plugin may do: return one of the three statuses
\* (without detailed checks) or fail
HealthAnswers == {"healthy", "degraded", "unhealthy", "throws"}

\* an error of an onHealthCheck hook is recorded and never re-thrown
triggerHealthCheck(m, answers, syncThrowers) ==
  Triggering("onHealthCheck", "app:healthcheck", "health", FALSE, FALSE,
             {n \in DOMAIN answers : answers[n] = "throws"}, syncThrowers, {}, answers,
             <<>>)

\* the overall status that follows the last answer
updateOverall_lastWins(overallStatus, answer) ==
  IF answer = "throws" THEN "unhealthy" ELSE answer

\* overallStatus after the answer of one plugin
updateOverall(overallStatus, answer) ==
  IF answer \in {"unhealthy", "throws"} THEN "unhealthy"
  ELSE IF answer = "degraded" /\ overallStatus = "healthy" THEN "degraded"
  ELSE overallStatus

\* the onRoute of a plugin of the model: it returns a new list, the routes
\* it received followed by a route of its own
onRoute(name, routes) == Append(routes, name)

\* `return value` after the statement that gave r
ReturnValue(r, value) ==
  IF r.threw # NoError THEN Raise(r.m, r.threw) ELSE Return([r.m EXCEPT !.result = value])

\* the end of a trigger method after its loop: the app event is emitted;
\* triggerRoute returns currentRoutes, held in m.result, triggerHealthCheck
\* the overall status
triggerEnd(m, f) ==
  IF f.kind = "health"
  THEN ReturnValue(emit(m, f.type, ""), Result("status", f.overallStatus))
  ELSE ReturnFrom(emit(m, f.type, ""))

\* plugin.onX(...) of the plugin name is invoked
invokeHook(m, f, name) ==
  [m EXCEPT !.hookLog = Append(@, [hook |-> f.hook, name |-> name])]

\* the loop of a trigger method over activePlugins from position i up to its
\* next await: the hook of the next plugin that has it is invoked and its
\* promise awaited; a hook that throws before it returns a promise leaves no
\* promise to await, the catch block runs at once and the loop goes on
RECURSIVE triggerLoop(_, _, _)
RECURSIVE triggerCatch(_, _, _)
RECURSIVE triggerNext(_, _, _)
triggerLoop(m, f, i) ==
  IF i > Len(f.activePlugins) THEN triggerEnd(m, f)
  ELSE IF f.hook \notin f.activePlugins[i].value.hooks THEN triggerLoop(m, f, i + 1)
  ELSE IF f.activePlugins[i].key \in f.syncThrowers
  THEN triggerCatch(invokeHook(m, f, f.activePlugins[i].key), [f EXCEPT !.at = i],
                    f.activePlugins[i].key)
  ELSE AwaitHook(invokeHook(m, f, f.activePlugins[i].key),
                 [f EXCEPT !.pc = "hook", !.at = i])

\* a trigger method from its call up to its first await: the active plugins
\* are read once; currentRoutes of triggerRoute starts as a copy of routes
triggerEnter(m, f) ==
  triggerLoop(IF f.kind = "route" THEN [m EXCEPT !.result = Result("routes", f.routes)]
              ELSE m,
              [f EXCEPT !.activePlugins = IF f.reverse THEN Reverse(activePluginObjects(m))
                                          ELSE activePluginObjects(m)],
              1)

\* the loop goes on from position i after r, the catch block of the turn
\* before: what the catch block threw leaves the method
triggerNext(r, f, i) ==
  IF r.threw # NoError THEN Raise(r.m, r.threw) ELSE triggerLoop(r.m, f, i)

\* the catch block that re-throws whatever continueOnError is
triggerCatch_alwaysRethrows(m, f, name) ==
  RaiseFrom(recordError([m EXCEPT !.result = NoResult], name, HookErr(f.hook, name)),
            HookErr(f.hook, name))

\* the catch block that never re-throws
triggerCatch_neverRethrows(m, f, name) ==
  triggerNext(recordError(m, name, HookErr(f.hook, name)),
              [f EXCEPT !.overallStatus = updateOverall(@, "throws")], f.at + 1)

\* the catch block of the loop of a trigger method, the hook of name threw
\* or rejected: the error is recorded, and re-thrown when the method does so
triggerCatch(m, f, name) ==
  IF f.rethrow
  THEN RaiseFrom(recordError([m EXCEPT !.result = NoResult], name, HookErr(f.hook, name)),
                 HookErr(f.hook, name))
  ELSE triggerNext(recordError(m, name, HookErr(f.hook, name)),
                   [f EXCEPT !.overallStatus = updateOverall(@, "throws")], f.at + 1)

\* the turn of triggerRequest that goes on after a Response
requestReturned_noShortCircuit(m, f, name) ==
  triggerLoop(IF name \in f.responders THEN [m EXCEPT !.result = Result("response", name)]
              ELSE m, f, f.at + 1)

\* triggerRequest and triggerError after the hook of name returned: a
\* Response is returned at once
requestReturned(m, f, name) ==
  IF name \in f.responders THEN Return([m EXCEPT !.result = Result("response", name)])
  ELSE triggerLoop(m, f, f.at + 1)

\* the turn of triggerRoute that drops what onRoute returns
routeReturned_ignoresReturn(m, f, name) == triggerLoop(m, f, f.at + 1)

\* triggerRoute after onRoute of name returned: currentRoutes becomes what
\* it returned
routeReturned(m, f, name) ==
  triggerLoop([m EXCEPT !.result = Result("routes", onRoute(name, @.value))], f, f.at + 1)

\* triggerHealthCheck after onHealthCheck of name returned its answer
healthReturned(m, f, name) ==
  triggerLoop(m, [f EXCEPT !.overallStatus = updateOverall(@, f.answers[name])], f.at + 1)

\* a trigger method after the hook of name returned
hookReturned(m, f, name) ==
  IF f.kind = "first" THEN requestReturned(m, f, name)
  ELSE IF f.kind = "route" THEN routeReturned(m, f, name)
  ELSE IF f.kind = "health" THEN healthReturned(m, f, name)
  ELSE triggerLoop(m, f, f.at + 1)

\* a trigger method after the promise of the hook of name is settled
hookSettled(m, f, name) ==
  IF name \in f.throwers THEN triggerCatch(m, f, name) ELSE hookReturned(m, f, name)

trigger(m, f, sig) ==
  IF f.pc = "start" THEN triggerEnter(m, f)
  ELSE hookSettled(m, f, f.activePlugins[f.at].key)

\* the frame of bootstrap(); initThrowers are the plugins whose onInit
\* fails if the step the frame takes next calls triggerInit,
\* initSyncThrowers those of them whose onInit throws before it returns a
\* promise
Bootstrapping(initThrowers, initSyncThrowers) ==
  [op |-> "bootstrap", pc |-> "start", plugins |-> <<>>, at |-> 0,
   initThrowers |-> initThrowers, initSyncThrowers |-> initSyncThrowers]

\* the frame of bootstrap left at pc, at position i of plugins; what its
\* next step finds of onInit is not known yet
bootstrapAt(f, pc, i) ==
  [f EXCEPT !.pc = pc, !.at = i, !.initThrowers = {}, !.initSyncThrowers = {}]

\* the second loop of bootstrap over plugins, from position i, then
\* triggerInit
RECURSIVE bootstrapActivate(_, _, _)
bootstrapActivate(m, f, i) ==
  IF i > Len(f.plugins)
  THEN Invoke(m, bootstrapAt(f, "triggerInit", i),
              triggerInit(m, f.initThrowers, f.initSyncThrowers))
  ELSE IF getState(m, f.plugins[i]) = "installed"
  THEN AwaitSync(activate(m, f.plugins[i]), bootstrapAt(f, "activate", i))
  ELSE bootstrapActivate(m, f, i + 1)

\* the first loop of bootstrap over plugins, from position i, then the
\* second loop
RECURSIVE bootstrapInstall(_, _, _)
bootstrapInstall(m, f, i) ==
  IF i > Len(f.plugins) THEN bootstrapActivate(m, f, 1)
  ELSE IF getState(m, f.plugins[i]) = "registered"
  THEN Invoke(m, bootstrapAt(f, "install", i), Installing(f.plugins[i]))
  ELSE bootstrapInstall(m, f, i + 1)

bootstrap(m, f, sig) ==
  IF f.pc = "start"
  THEN bootstrapInstall(m, [f EXCEPT !.plugins = getRegisteredPlugins(m)], 1)
  ELSE IF sig.threw # NoError THEN Raise(m, sig.threw)
  ELSE IF f.pc = "install" THEN bootstrapInstall(m, f, f.at + 1)
  ELSE IF f.pc = "activate" THEN bootstrapActivate(m, f, f.at + 1)
  ELSE Return(m)

\* the frame of shutdown(); stopThrowers are the plugins whose onStop fails
\* when triggerStop calls it and stopSyncThrowers those of them whose onStop
\* throws before it returns a promise; shutdownThrowers and
\* shutdownSyncThrowers are the same for onShutdown, known when triggerStop
\* has ended
ShuttingDown(stopThrowers, stopSyncThrowers) ==
  [op |-> "shutdown", pc |-> "start", plugins |-> <<>>, at |-> 0,
   stopThrowers |-> stopThrowers, stopSyncThrowers |-> stopSyncThrowers,
   shutdownThrowers |-> {}, shutdownSyncThrowers |-> {}]

\* the frame of shutdown left at pc; the hooks its triggers called have
\* ended
shutdownAt(f, pc) ==
  [f EXCEPT !.pc = pc, !.stopThrowers = {}, !.stopSyncThrowers = {},
            !.shutdownThrowers = {}, !.shutdownSyncThrowers = {}]

\* the loop of shutdown that uninstalls, over the registered names read
\* when it starts, from position i; what uninstall throws is ignored
RECURSIVE shutdownUninstall(_, _, _)
shutdownUninstall(m, f, i) ==
  IF i > Len(f.plugins) THEN Return(m)
  ELSE IF getState(m, f.plugins[i]) \notin {"uninstalled", "registered"}
  THEN Invoke(m, [f EXCEPT !.pc = "uninstall", !.at = i], Uninstalling(f.plugins[i]))
  ELSE shutdownUninstall(m, f, i + 1)

\* the loop of shutdown that deactivates the plugins read as active after
\* the triggers, in reverse, from position i; what deactivate throws is
\* caught at once and ignored; then the loop that uninstalls
RECURSIVE shutdownDeactivate(_, _, _)
shutdownDeactivate(m, f, i) ==
  IF i > Len(f.plugins)
  THEN shutdownUninstall(m, [f EXCEPT !.plugins = getRegisteredPlugins(m)], 1)
  ELSE IF deactivate(m, f.plugins[i]).threw # NoError
  THEN shutdownDeactivate(deactivate(m, f.plugins[i]).m, f, i + 1)
  ELSE Await(deactivate(m, f.plugins[i]).m, [f EXCEPT !.pc = "deactivate", !.at = i],
             NoError)

shutdown(m, f, sig) ==
  IF f.pc = "start"
  THEN Invoke(m, shutdownAt(f, "triggerStop"),
              triggerStop(m, f.stopThrowers, f.stopSyncThrowers))
  ELSE IF f.pc = "triggerStop"
  THEN IF sig.threw # NoError THEN Raise(m, sig.threw)
       ELSE Invoke(m, shutdownAt(f, "triggerShutdown"),
                   triggerShutdown(m, f.shutdownThrowers, f.shutdownSyncThrowers))
  ELSE IF f.pc = "triggerShutdown"
  THEN IF sig.threw # NoError THEN Raise(m, sig.threw)
       ELSE shutdownDeactivate(m, [f EXCEPT !.plugins = Reverse(getActivePlugins(m))], 1)
  ELSE IF f.pc = "deactivate" THEN shutdownDeactivate(m, f, f.at + 1)
  ELSE shutdownUninstall(m, f, f.at + 1)

\* the frame of reloadPluginFromFile(path): loaded tells whether
\* loadPluginFromFile(path) returns, plugin is the descriptor it returns;
\* the path of a file is written as the name of the plugin the file holds
Reloading(loaded, plugin) ==
  [op |-> "reloadPluginFromFile", pc |-> "start", name |-> plugin.name, loaded |-> loaded,
   plugin |-> plugin, currentState |-> NoState]

\* the catch block of reloadPluginFromFile: plugin:error is emitted with the
\* path and nothing is thrown
reloadCatch(m, f) == ReturnFrom(emit(m, "plugin:error", f.name))

\* the end of the try block of reloadPluginFromFile after r, its last
\* statement: what the statement threw goes to the catch block
reloadEnd(r, f) == IF r.threw # NoError THEN reloadCatch(r.m, f) ELSE Return(r.m)

\* the end of the reload of a registered plugin: the descriptor loaded
\* replaces the old one, the state is registered again and plugin:reloaded
\* is emitted
reloadRegister(m, f) ==
  reloadEnd(emit(setState([m EXCEPT !.plugins = MapSet(@, f.name, PluginOf(f.plugin))],
                          f.name, "registered"),
                 "plugin:reloaded", f.name),
            f)

\* the uninstallation of the reload: currentState is the state read before
\* the deactivation
reloadUninstall(m, f) ==
  IF f.currentState \in {"installed", "inactive"}
  THEN Invoke(m, [f EXCEPT !.pc = "uninstall"], Uninstalling(f.name))
  ELSE reloadRegister(m, f)

\* the reload of a plugin that is registered, in the state f.currentState
reloadExisting(m, f) ==
  IF f.currentState # "active" THEN reloadUninstall(m, f)
  ELSE IF deactivate(m, f.name).threw # NoError THEN reloadCatch(deactivate(m, f.name).m, f)
  ELSE Await(deactivate(m, f.name).m, [f EXCEPT !.pc = "deactivate"], NoError)

\* reloadPluginFromFile first awaits loadPluginFromFile(path), and reads the
\* registry when the file is loaded; what is thrown inside goes to the catch
\* block
reloadPluginFromFile(m, f, sig) ==
  IF f.pc = "start"
  THEN Await(m, [f EXCEPT !.pc = "load"],
             IF f.loaded THEN NoError ELSE Err("loadFailed", f.name, "", ""))
  ELSE IF sig.threw # NoError THEN reloadCatch(m, f)
  ELSE IF f.pc = "load"
  THEN IF MapHas(m.plugins, f.name)
       THEN reloadExisting(m, [f EXCEPT !.currentState = getState(m, f.name)])
       ELSE reloadEnd(register(m, f.plugin, FALSE), f)
  ELSE IF f.pc = "deactivate" THEN reloadUninstall(m, f)
  ELSE reloadRegister(m, f)

\* the frame of loadFromFile(path): loaded tells whether
\* loadPluginFromFile(path) returns, plugin is the descriptor it returns
LoadingFile(path) ==
  [op |-> "loadFromFile", pc |-> "start", name |-> path.plugin.name,
   loaded |-> path.loaded, plugin |-> path.plugin]

\* loadFromFile after the file is loaded: the plugin is registered, and its
\* file watched when hot reload is on; watchFile catches what it throws
loadRegister(m, f) ==
  IF register(m, f.plugin, FALSE).threw # NoError
  THEN Raise(register(m, f.plugin, FALSE).m, register(m, f.plugin, FALSE).threw)
  ELSE IF m.hotReloadManager
  THEN Await(register(m, f.plugin, FALSE).m, [f EXCEPT !.pc = "watchFile"], NoError)
  ELSE Return(register(m, f.plugin, FALSE).m)

\* loadFromFile first awaits loadPluginFromFile(path); what that throws
\* leaves loadFromFile
loadFromFile(m, f, sig) ==
  IF f.pc = "start"
  THEN Await(m, [f EXCEPT !.pc = "load"],
             IF f.loaded THEN NoError ELSE Err("loadPluginFailed", f.name, "", ""))
  ELSE IF sig.threw # NoError THEN Raise(m, sig.threw)
  ELSE IF f.pc = "load" THEN loadRegister(m, f)
  ELSE Return(m)

\* the frame of loadFromDirectory(directory): readable tells whether
\* readdir(directory) returns, entries is what it returns; of an entry stat
\* fails or tells whether it is a file, with the extension .ts or .js or
\* not, and the entry has the path of a file
LoadingDirectory(readable, entries) ==
  [op |-> "loadFromDirectory", pc |-> "start", readable |-> readable,
   entries |-> entries, pluginFiles |-> <<>>, at |-> 0]

\* the outer catch block of loadFromDirectory: whatever is thrown inside
\* leaves as an error loadDirectoryFailed
loadDirectoryCatch(m, f) == Raise(m, Err("loadDirectoryFailed", "", "", ""))

\* the second loop of loadFromDirectory, over pluginFiles from position i
loadDirectoryFiles(m, f, i) ==
  IF i > Len(f.pluginFiles) THEN Return(m)
  ELSE Invoke(m, [f EXCEPT !.pc = "loadFromFile", !.at = i], LoadingFile(f.pluginFiles[i]))

\* the first loop of loadFromDirectory, over entries from position i: the
\* entry is looked at with stat, which may fail
loadDirectoryEntries(m, f, i) ==
  IF i > Len(f.entries) THEN loadDirectoryFiles(m, f, 1)
  ELSE Await(m, [f EXCEPT !.pc = "stat", !.at = i],
             IF f.entries[i].stat THEN NoError ELSE Err("stat", "", "", ""))

\* the entry stat looked at is kept when it is a plugin file
loadDirectoryStat(m, f) ==
  loadDirectoryEntries(m,
                       IF f.entries[f.at].file
                       THEN [f EXCEPT !.pluginFiles = Append(@, f.entries[f.at])]
                       ELSE f,
                       f.at + 1)

loadFromDirectory(m, f, sig) ==
  IF f.pc = "start"
  THEN Await(m, [f EXCEPT !.pc = "readdir"],
             IF f.readable THEN NoError ELSE Err("readdir", "", "", ""))
  ELSE IF f.pc = "readdir"
  THEN IF sig.threw # NoError THEN loadDirectoryCatch(m, f)
       ELSE loadDirectoryEntries(m, f, 1)
  ELSE IF f.pc = "stat"
  THEN IF sig.threw # NoError THEN loadDirectoryCatch(m, f)
       ELSE loadDirectoryStat(m, f)
  ELSE IF sig.threw # NoError /\ ~m.options.continueOnError THEN loadDirectoryCatch(m, f)
  ELSE loadDirectoryFiles(m, f, f.at + 1)

\* the catch handler setConfig left on the promise onConfigUpdate returned
ConfigCatching(name) == [op |-> "configCatch", pc |-> "start", name |-> name]

\* the catch handler of a rejected onConfigUpdate, e caught
configRejected(m, f, sig) == ReturnFrom(recordError(m, f.name, sig.threw))

\* a step of the frame f resumed with sig
step(m, f, sig) ==
  IF f.op = "install" THEN install(m, f, sig)
  ELSE IF f.op = "use" THEN use(m, f, sig)
  ELSE IF f.op = "uninstall" THEN uninstall(m, f, sig)
  ELSE IF f.op = "trigger" THEN trigger(m, f, sig)
  ELSE IF f.op = "bootstrap" THEN bootstrap(m, f, sig)
  ELSE IF f.op = "shutdown" THEN shutdown(m, f, sig)
  ELSE IF f.op = "reloadPluginFromFile" THEN reloadPluginFromFile(m, f, sig)
  ELSE IF f.op = "loadFromFile" THEN loadFromFile(m, f, sig)
  ELSE IF f.op = "loadFromDirectory" THEN loadFromDirectory(m, f, sig)
  ELSE configRejected(m, f, sig)

\* a call that reached its end: it returned, or threw e
Finished(m, e) == [m |-> m, threw |-> e, stack |-> <<>>, sig |-> CallSig]

\* a call suspended at an await: it has not returned
Suspended(m, stack, sig) == [m |-> m, threw |-> NoError, stack |-> stack, sig |-> sig]

\* the call with the frames stack runs on, its first frame resumed with
\* sig, until control goes back to the event loop: at every await, and at
\* the return or throw of a method to the method that awaits it
RECURSIVE run(_, _, _)
RECURSIVE runNext(_, _)
run(m, stack, sig) == runNext(step(m, Head(stack), sig), Tail(stack))

runNext(d, rest) ==
  IF d.do = "invoke" THEN run(d.m, <<d.callee, d.frame>> \o rest, CallSig)
  ELSE IF d.do = "hook" THEN Suspended(d.m, <<d.frame>> \o rest, HookSig)
  ELSE IF d.do = "await" THEN Suspended(d.m, <<d.frame>> \o rest, Settled(d.threw))
  ELSE IF rest = <<>> THEN Finished(d.m, d.threw)
  ELSE Suspended(d.m, rest, Settled(d.threw))

\* ------------------------------------------------------------------------
\* State
\* ------------------------------------------------------------------------

VARIABLES
  options,         \* this.options: autoActivate, continueOnError
  plugins,         \* this.plugins: Map name -> descriptor
  pluginStates,    \* this.pluginStates: Map name -> PluginState
  pluginServices,  \* the keys of this.pluginServices (every value is an empty Set)
  pluginConfigs,   \* this.pluginConfigs, NoConfig for a name without entry
  pluginErrors,    \* this.pluginErrors, NoError for a name without entry
  call,            \* the call of the API that took the last step: method and
                   \* arguments when the step ended the call, an "await" of
                   \* the method when the step left the call suspended
  threw,           \* the error the call threw, NoError if it returned
  events,          \* the events the call has emitted so far, in order
  writes,          \* the writes of pluginStates the call has made, in order
  hookLog,         \* the plugin hooks the call has invoked, in order
  prev,            \* the manager when the call started
  activations,     \* the names activated and still active, in activation order
  scope,           \* what the integrator draws its calls from: the plugin names
                   \* it uses, the values of replace it passes, whether its
                   \* calls are counted and how many it makes, whether the
                   \* call before the last is kept, the trigger method it
                   \* calls, the number of calls it leaves suspended at a
                   \* time, whether it awaits every call before the next,
                   \* the values of enableHotReload it constructs with
  calls,           \* number of calls made, when they are counted
  result,          \* the value the call returned
  pending,         \* the calls suspended at an await, each with its frames,
                   \* what its await is settled with, its logs so far and the
                   \* manager when it started
  emittedAt,       \* for each event of the call, the number of writes of
                   \* pluginStates the call had made when it emitted the event
  listeners,       \* the listeners of each listened event, in insertion order
  notified,        \* the calls of listeners the call has made, in order
  awaited,         \* whether the host has awaited every call so far: no call
                   \* took a step while a call of an asynchronous method was
                   \* suspended
  hotReloadManager \* whether this.hotReloadManager is a manager and not null:
                   \* enableHotReload was given and hot reload is not stopped

vars == <<options, plugins, pluginStates, pluginServices, pluginConfigs, pluginErrors,
          call, threw, events, writes, hookLog, prev, activations, scope, calls,
          result, pending, emittedAt, listeners, notified, awaited, hotReloadManager>>

\* hooks a descriptor of the model implements
Hooks == {"onInit", "onStop", "onShutdown"}

Descriptor(name, dependencies) ==
  [name |-> name, dependencies |-> dependencies, hooks |-> Hooks, config |-> NoConfig,
   validateConfig |-> "none", onConfigUpdate |-> "none"]

\* the hooks the trigger methods of the model call
TriggerHooks ==
  {"onInit", "onStart", "onStop", "onShutdown", "onRequest", "onResponse", "onRoute",
   "onBuild", "onBuildComplete", "onSocket", "onSocketClose", "onHealthCheck",
   "onError", "onHotReload"}

\* a descriptor without dependencies that implements the hooks given
HookDescriptor(name, hooks) ==
  [name |-> name, dependencies |-> <<>>, hooks |-> hooks, config |-> NoConfig,
   validateConfig |-> "none", onConfigUpdate |-> "none"]

\* the sets of hooks a descriptor of a trigger specification implements:
\* every hook, or none
HookSets == {TriggerHooks, {}}

\* the manager held in the variables, the logs of the call empty
Manager ==
  [options |-> options, plugins |-> plugins, pluginStates |-> pluginStates,
   pluginServices |-> pluginServices, pluginConfigs |-> pluginConfigs,
   pluginErrors |-> pluginErrors, events |-> <<>>, writes |-> <<>>, hookLog |-> <<>>,
   result |-> NoResult, emittedAt |-> <<>>, listeners |-> listeners,
   notified |-> <<>>, hotReloadManager |-> hotReloadManager]

\* the logs of the call that ran on m
LogOf(m) ==
  [events |-> m.events, writes |-> m.writes, hookLog |-> m.hookLog, result |-> m.result,
   emittedAt |-> m.emittedAt, notified |-> m.notified]

\* the manager held in the variables, with the logs of a suspended call
ManagerWith(log) ==
  [options |-> options, plugins |-> plugins, pluginStates |-> pluginStates,
   pluginServices |-> pluginServices, pluginConfigs |-> pluginConfigs,
   pluginErrors |-> pluginErrors, events |-> log.events, writes |-> log.writes,
   hookLog |-> log.hookLog, result |-> log.result, emittedAt |-> log.emittedAt,
   listeners |-> listeners, notified |-> log.notified,
   hotReloadManager |-> hotReloadManager]

NoCall == [op |-> "new", name |-> "", replace |-> FALSE, deps |-> <<>>]
Call(op, name) == [op |-> op, name |-> name, replace |-> FALSE, deps |-> <<>>]

\* the call c left suspended at an await
Awaiting(c) == [op |-> "await", name |-> c.name, replace |-> FALSE, deps |-> <<>>, of |-> c.op]

\* a call of a trigger method and what the hooks do during it: the plugins
\* whose hook fails, those whose onRequest returns a Response, and the
\* answers of the onHealthCheck hooks
TriggerCall(op, throwers, responders, answers) ==
  [op |-> op, name |-> "", replace |-> FALSE, deps |-> <<>>,
   throwers |-> throwers, responders |-> responders, answers |-> answers]

\* what is kept of the manager from before a call and, when scope.twice
\* holds, of the call that led there
Snapshot ==
  [plugins |-> plugins, pluginStates |-> pluginStates, pluginServices |-> pluginServices,
   pluginConfigs |-> pluginConfigs, pluginErrors |-> pluginErrors,
   activations |-> activations,
   call |-> IF scope.twice THEN call ELSE NoCall,
   threw |-> IF scope.twice THEN threw ELSE NoError,
   events |-> IF scope.twice THEN events ELSE <<>>]

\* the activation order after the writes ws from position i: a name enters
\* at the end when it becomes active and leaves when it stops being active
RECURSIVE trackActivations(_, _, _)
trackActivations(acts, ws, i) ==
  IF i > Len(ws) THEN acts
  ELSE LET w == ws[i]
           without == SelectSeq(acts, LAMBDA n : n # w.name)
       IN trackActivations(IF w.to = "active" THEN Append(without, w.name) ELSE without,
                           ws, i + 1)

\* the names of acts that are active in m: pluginStates.clear() leaves none
stillActive(acts, m) == SelectSeq(acts, LAMBDA n : getState(m, n) = "active")

\* the sequence s without its element k
Without(s, k) == SubSeq(s, 1, k - 1) \o SubSeq(s, k + 1, Len(s))

\* whether ps holds no suspended call of an asynchronous method: a catch
\* handler left on a promise is no call the host can await
NoneSuspended(ps) == \A k \in 1..Len(ps) : ps[k].call.op = "setConfig:catch"

\* the call c suspended with the outcome o of its last step; pv is the
\* manager when it started
PendingCall(c, o, pv) ==
  [call |-> c, prev |-> pv, stack |-> o.stack, sig |-> o.sig, log |-> LogOf(o.m)]

\* the variables after a step of the call c that gave o: the call ended when
\* o.stack is empty, else it is suspended. pv is the manager when the call
\* started, nw the number of writes the call had made before the step, rest
\* the other suspended calls, started whether the step is the first of the
\* call
Step(c, o, pv, nw, rest, started) ==
  /\ (started /\ scope.counted) => calls < scope.calls
  /\ (started /\ scope.awaits) => NoneSuspended(rest)
  /\ pending' = IF o.stack = <<>> THEN rest ELSE Append(rest, PendingCall(c, o, pv))
  /\ Len(pending') <= scope.pending
  /\ calls' = IF started /\ scope.counted THEN calls + 1 ELSE calls
  /\ UNCHANGED scope
  /\ call' = IF o.stack = <<>> THEN c ELSE Awaiting(c)
  /\ threw' = o.threw
  /\ prev' = pv
  /\ awaited' = (awaited /\ (NoneSuspended(rest) \/ c.op = "setConfig:catch"))
  /\ options' = o.m.options
  /\ plugins' = o.m.plugins
  /\ pluginStates' = o.m.pluginStates
  /\ pluginServices' = o.m.pluginServices
  /\ pluginConfigs' = o.m.pluginConfigs
  /\ pluginErrors' = o.m.pluginErrors
  /\ events' = o.m.events
  /\ writes' = o.m.writes
  /\ hookLog' = o.m.hookLog
  /\ activations' = stillActive(trackActivations(activations, o.m.writes, nw + 1), o.m)
  /\ result' = o.m.result
  /\ emittedAt' = o.m.emittedAt
  /\ listeners' = o.m.listeners
  /\ notified' = o.m.notified
  /\ hotReloadManager' = o.m.hotReloadManager

\* the variables after a call c of a synchronous method with result r, which
\* leaves the catch handlers p on promises
CommitPending(c, r, p) ==
  Step(c, Finished(r.m, r.threw), Snapshot, 0, pending \o p, TRUE)

\* the variables after a call c of a synchronous method with result r
Commit(c, r) == CommitPending(c, r, <<>>)

\* a call c of an asynchronous method with the frame f runs up to its first
\* await or its end
Start(c, f) ==
  Step(c, run(Manager, <<f>>, CallSig), Snapshot, 0, pending, TRUE)

\* the suspended call k runs on up to its next await or its end
ResumePending(k, m) ==
  Step(pending[k].call, run(m, pending[k].stack, pending[k].sig), pending[k].prev,
       Len(pending[k].log.writes), Without(pending, k), FALSE)

\* the suspended calls of the method op
PendingOf(op) == {k \in 1..Len(pending) : pending[k].call.op = op}

\* the suspended call k runs on from the logs it left
Resume(k) == ResumePending(k, ManagerWith(pending[k].log))

\* the suspended call k runs on from the logs it left, f its first frame
ResumeFrame(k, f) ==
  Step(pending[k].call,
       run(ManagerWith(pending[k].log), <<f>> \o Tail(pending[k].stack), pending[k].sig),
       pending[k].prev, Len(pending[k].log.writes), Without(pending, k), FALSE)

\* the frame the suspended call k runs on in
FrameOf(k) == Head(pending[k].stack)

InitWith(sc, autoActivate) ==
  /\ scope = sc
  /\ calls = 0
  /\ options \in [autoActivate : autoActivate, continueOnError : BOOLEAN]
  /\ plugins = <<>>
  /\ pluginStates = <<>>
  /\ pluginServices = {}
  /\ pluginConfigs = [n \in Names |-> NoConfig]
  /\ pluginErrors = [n \in Names |-> NoError]
  /\ call = NoCall
  /\ threw = NoError
  /\ events = <<>>
  /\ writes = <<>>
  /\ hookLog = <<>>
  /\ prev = [plugins |-> <<>>, pluginStates |-> <<>>, pluginServices |-> {},
             pluginConfigs |-> [n \in Names |-> NoConfig],
             pluginErrors |-> [n \in Names |-> NoError], activations |-> <<>>,
             call |-> NoCall, threw |-> NoError, events |-> <<>>]
  /\ activations = <<>>
  /\ result = NoResult
  /\ pending = <<>>
  /\ emittedAt = <<>>
  /\ listeners = [e \in ListenedEvents |-> <<>>]
  /\ notified = <<>>
  /\ awaited = TRUE
  /\ hotReloadManager \in scope.hotReload

\* the scope of an integrator
Scope(names, replace, counted, twice, method) ==
  [names |-> names, replace |-> replace, counted |-> counted, twice |-> twice,
   trigger |-> method, pending |-> MaxPending, calls |-> MaxCalls, awaits |-> FALSE,
   hotReload |-> {FALSE}]

Init == InitWith(Scope({"a", "b"}, BOOLEAN, TRUE, FALSE, ""), BOOLEAN)

\* ------------------------------------------------------------------------
\* Actions: one per synchronous method, two per asynchronous method (its
\* call up to the first await, and a suspended call running on)
\* ------------------------------------------------------------------------

Register ==
  \E n \in scope.names, replace \in scope.replace :
    \E deps \in DepLists(scope.names, n) :
      Commit([op |-> "register", name |-> n, replace |-> replace, deps |-> deps],
             register(Manager, Descriptor(n, deps), replace))

UseStart ==
  \E n \in scope.names :
    \E deps \in DepLists(scope.names, n) :
      Start([op |-> "use", name |-> n, replace |-> FALSE, deps |-> deps],
            Using(Descriptor(n, deps)))

UseResume == \E k \in PendingOf("use") : Resume(k)

InstallStart == \E n \in scope.names : Start(Call("install", n), Installing(n))

InstallResume == \E k \in PendingOf("install") : Resume(k)

Activate == \E n \in scope.names : Commit(Call("activate", n), activate(Manager, n))

Deactivate == \E n \in scope.names : Commit(Call("deactivate", n), deactivate(Manager, n))

UninstallStart == \E n \in scope.names : Start(Call("uninstall", n), Uninstalling(n))

UninstallResume == \E k \in PendingOf("uninstall") : Resume(k)

\* bootstrap(): triggerInit reads the active plugins when the two loops have
\* ended, in the step that calls it, and the onInit hooks of these plugins
\* return or fail: in the first step when nothing is to install or to
\* activate
BootstrapStart ==
  \E initThrowers \in SUBSET Range(getActivePlugins(Manager)) :
    \E initSyncThrowers \in SUBSET initThrowers :
      Start(Call("bootstrap", ""), Bootstrapping(initThrowers, initSyncThrowers))

\* a suspended bootstrap runs on: in bootstrap itself, where the step may
\* call triggerInit on the plugins active now, one registered and activated
\* by another call meanwhile included, or in a method bootstrap awaits
BootstrapResume ==
  \E k \in PendingOf("bootstrap") :
    IF FrameOf(k).op = "bootstrap" /\ FrameOf(k).pc # "triggerInit"
    THEN \E initThrowers \in SUBSET Range(getActivePlugins(Manager)) :
           \E initSyncThrowers \in SUBSET initThrowers :
             ResumeFrame(k, [FrameOf(k) EXCEPT !.initThrowers = initThrowers,
                                               !.initSyncThrowers = initSyncThrowers])
    ELSE Resume(k)

\* shutdown(): triggerStop reads the active plugins at once, and their
\* onStop hooks return or fail
ShutdownStart ==
  \E stopThrowers \in SUBSET Range(getActivePlugins(Manager)) :
    \E stopSyncThrowers \in SUBSET stopThrowers :
      Start(Call("shutdown", ""), ShuttingDown(stopThrowers, stopSyncThrowers))

\* a suspended shutdown runs on: when triggerStop has ended the step calls
\* triggerShutdown on the plugins active now, one activated by another call
\* meanwhile included, and their onShutdown hooks return or fail
ShutdownResume ==
  \E k \in PendingOf("shutdown") :
    IF FrameOf(k).op = "shutdown" /\ FrameOf(k).pc = "triggerStop"
    THEN \E shutdownThrowers \in SUBSET Range(getActivePlugins(Manager)) :
           \E shutdownSyncThrowers \in SUBSET shutdownThrowers :
             ResumeFrame(k, [FrameOf(k) EXCEPT !.shutdownThrowers = shutdownThrowers,
                                               !.shutdownSyncThrowers = shutdownSyncThrowers])
    ELSE Resume(k)

SetConfig ==
  \E n \in scope.names, config \in Configs :
    Commit(Call("setConfig", n), setConfig(Manager, n, config))

\* register and use of descriptors that implement every hook or none
RegisterHooks ==
  \E n \in scope.names, hooks \in HookSets :
    Commit(Call("register", n), register(Manager, HookDescriptor(n, hooks), FALSE))

UseHooksStart ==
  \E n \in scope.names, hooks \in HookSets :
    Start(Call("use", n), Using(HookDescriptor(n, hooks)))

\* the plugins whose hooks a trigger call may reach
ActiveNames == Range(getActivePlugins(Manager))

TriggerInitStart ==
  /\ scope.trigger = "triggerInit"
  /\ \E throwers \in SUBSET ActiveNames :
       \E syncThrowers \in SUBSET throwers :
         Start(TriggerCall("triggerInit", throwers, {}, NoAnswers),
               triggerInit(Manager, throwers, syncThrowers))

TriggerInitResume == \E k \in PendingOf("triggerInit") : Resume(k)

TriggerStartStart ==
  /\ scope.trigger = "triggerStart"
  /\ \E throwers \in SUBSET ActiveNames :
       \E syncThrowers \in SUBSET throwers :
         Start(TriggerCall("triggerStart", throwers, {}, NoAnswers),
               triggerStart(Manager, throwers, syncThrowers))

TriggerStartResume == \E k \in PendingOf("triggerStart") : Resume(k)

TriggerStopStart ==
  /\ scope.trigger = "triggerStop"
  /\ \E throwers \in SUBSET ActiveNames :
       \E syncThrowers \in SUBSET throwers :
         Start(TriggerCall("triggerStop", throwers, {}, NoAnswers),
               triggerStop(Manager, throwers, syncThrowers))

TriggerStopResume == \E k \in PendingOf("triggerStop") : Resume(k)

TriggerShutdownStart ==
  /\ scope.trigger = "triggerShutdown"
  /\ \E throwers \in SUBSET ActiveNames :
       \E syncThrowers \in SUBSET throwers :
         Start(TriggerCall("triggerShutdown", throwers, {}, NoAnswers),
               triggerShutdown(Manager, throwers, syncThrowers))

TriggerShutdownResume == \E k \in PendingOf("triggerShutdown") : Resume(k)

TriggerRequestStart ==
  /\ scope.trigger = "triggerRequest"
  /\ \E throwers \in SUBSET ActiveNames, responders \in SUBSET ActiveNames :
       \E syncThrowers \in SUBSET throwers :
         Start(TriggerCall("triggerRequest", throwers, responders, NoAnswers),
               triggerRequest(Manager, throwers, syncThrowers, responders))

TriggerRequestResume == \E k \in PendingOf("triggerRequest") : Resume(k)

TriggerResponseStart ==
  /\ scope.trigger = "triggerResponse"
  /\ \E throwers \in SUBSET ActiveNames :
       \E syncThrowers \in SUBSET throwers :
         Start(TriggerCall("triggerResponse", throwers, {}, NoAnswers),
               triggerResponse(Manager, throwers, syncThrowers))

TriggerResponseResume == \E k \in PendingOf("triggerResponse") : Resume(k)

\* the route lists handed to triggerRoute: none, one route
InputRoutes == {<<>>, <<"r0">>}

\* a call triggerRoute(routes)
RouteCall(throwers, routes) ==
  [op |-> "triggerRoute", name |-> "", replace |-> FALSE, deps |-> <<>>,
   throwers |-> throwers, responders |-> {}, answers |-> NoAnswers, routes |-> routes]

TriggerRouteStart ==
  /\ scope.trigger = "triggerRoute"
  /\ \E throwers \in SUBSET ActiveNames :
       \E syncThrowers \in SUBSET throwers, routes \in InputRoutes :
         Start(RouteCall(throwers, routes),
               triggerRoute(Manager, throwers, syncThrowers, routes))

TriggerRouteResume == \E k \in PendingOf("triggerRoute") : Resume(k)

TriggerBuildStart ==
  /\ scope.trigger = "triggerBuild"
  /\ \E throwers \in SUBSET ActiveNames :
       \E syncThrowers \in SUBSET throwers :
         Start(TriggerCall("triggerBuild", throwers, {}, NoAnswers),
               triggerBuild(Manager, throwers, syncThrowers))

TriggerBuildResume == \E k \in PendingOf("triggerBuild") : Resume(k)

TriggerBuildCompleteStart ==
  /\ scope.trigger = "triggerBuildComplete"
  /\ \E throwers \in SUBSET ActiveNames :
       \E syncThrowers \in SUBSET throwers :
         Start(TriggerCall("triggerBuildComplete", throwers, {}, NoAnswers),
               triggerBuildComplete(Manager, throwers, syncThrowers))

TriggerBuildCompleteResume == \E k \in PendingOf("triggerBuildComplete") : Resume(k)

TriggerSocketStart ==
  /\ scope.trigger = "triggerSocket"
  /\ \E throwers \in SUBSET ActiveNames :
       \E syncThrowers \in SUBSET throwers :
         Start(TriggerCall("triggerSocket", throwers, {}, NoAnswers),
               triggerSocket(Manager, throwers, syncThrowers))

TriggerSocketResume == \E k \in PendingOf("triggerSocket") : Resume(k)

TriggerSocketCloseStart ==
  /\ scope.trigger = "triggerSocketClose"
  /\ \E throwers \in SUBSET ActiveNames :
       \E syncThrowers \in SUBSET throwers :
         Start(TriggerCall("triggerSocketClose", throwers, {}, NoAnswers),
               triggerSocketClose(Manager, throwers, syncThrowers))

TriggerSocketCloseResume == \E k \in PendingOf("triggerSocketClose") : Resume(k)

TriggerErrorStart ==
  /\ scope.trigger = "triggerError"
  /\ \E throwers \in SUBSET ActiveNames, responders \in SUBSET ActiveNames :
       \E syncThrowers \in SUBSET throwers :
         Start(TriggerCall("triggerError", throwers, responders, NoAnswers),
               triggerError(Manager, throwers, syncThrowers, responders))

TriggerErrorResume == \E k \in PendingOf("triggerError") : Resume(k)

TriggerHotReloadStart ==
  /\ scope.trigger = "triggerHotReload"
  /\ \E throwers \in SUBSET ActiveNames :
       \E syncThrowers \in SUBSET throwers :
         Start(TriggerCall("triggerHotReload", throwers, {}, NoAnswers),
               triggerHotReload(Manager, throwers, syncThrowers))

TriggerHotReloadResume == \E k \in PendingOf("triggerHotReload") : Resume(k)

TriggerHealthCheckStart ==
  /\ scope.trigger = "triggerHealthCheck"
  /\ \E answers \in [ActiveNames -> HealthAnswers] :
       \E syncThrowers \in SUBSET {n \in ActiveNames : answers[n] = "throws"} :
         Start(TriggerCall("triggerHealthCheck",
                           {n \in ActiveNames : answers[n] = "throws"}, {}, answers),
               triggerHealthCheck(Manager, answers, syncThrowers))

TriggerHealthCheckResume == \E k \in PendingOf("triggerHealthCheck") : Resume(k)

Next ==
  \/ Register
  \/ UseStart
  \/ UseResume
  \/ InstallStart
  \/ InstallResume
  \/ Activate
  \/ Deactivate
  \/ UninstallStart
  \/ UninstallResume
  \/ BootstrapStart
  \/ BootstrapResume
  \/ ShutdownStart
  \/ ShutdownResume

\* the lifecycle of two plugins under every method that changes a state
Spec == Init /\ [][Next]_vars

NextConfig ==
  \/ Register
  \/ SetConfig
  \/ InstallStart
  \/ InstallResume
  \/ Activate
  \/ Deactivate
  \/ UninstallStart
  \/ UninstallResume
  \/ BootstrapStart
  \/ BootstrapResume

InitConfig ==
  InitWith(Scope({"a", "b"}, BOOLEAN, TRUE, FALSE, ""), {FALSE})

\* registration and replacement of plugins that carry a runtime config
SpecConfig == InitConfig /\ [][NextConfig]_vars

NextDeps ==
  \/ Register
  \/ InstallStart
  \/ InstallResume
  \/ UninstallStart
  \/ UninstallResume

InitDeps ==
  InitWith(Scope({"a", "b", "c"}, {FALSE}, TRUE, FALSE, ""), BOOLEAN)

\* installation over the dependency graphs of three plugins
SpecDeps == InitDeps /\ [][NextDeps]_vars

NextUse ==
  \/ Register
  \/ UseStart
  \/ UseResume
  \/ Deactivate
  \/ UninstallStart
  \/ UninstallResume

InitUse ==
  InitWith(Scope({"a", "b"}, {FALSE}, TRUE, TRUE, ""), BOOLEAN)

\* use and the calls around it, with the call before the last one kept
SpecUse == InitUse /\ [][NextUse]_vars

\* the trigger methods of the model
Triggers ==
  {"triggerInit", "triggerStart", "triggerStop", "triggerShutdown", "triggerRequest",
   "triggerResponse", "triggerRoute", "triggerBuild", "triggerBuildComplete",
   "triggerSocket", "triggerSocketClose", "triggerHealthCheck", "triggerError",
   "triggerHotReload"}

NextTriggers ==
  \/ RegisterHooks
  \/ UseHooksStart
  \/ UseResume
  \/ InstallStart
  \/ InstallResume
  \/ Deactivate
  \/ UninstallStart
  \/ UninstallResume
  \/ TriggerInitStart
  \/ TriggerInitResume
  \/ TriggerStartStart
  \/ TriggerStartResume
  \/ TriggerStopStart
  \/ TriggerStopResume
  \/ TriggerShutdownStart
  \/ TriggerShutdownResume
  \/ TriggerRequestStart
  \/ TriggerRequestResume
  \/ TriggerResponseStart
  \/ TriggerResponseResume
  \/ TriggerRouteStart
  \/ TriggerRouteResume
  \/ TriggerBuildStart
  \/ TriggerBuildResume
  \/ TriggerBuildCompleteStart
  \/ TriggerBuildCompleteResume
  \/ TriggerSocketStart
  \/ TriggerSocketResume
  \/ TriggerSocketCloseStart
  \/ TriggerSocketCloseResume
  \/ TriggerHealthCheckStart
  \/ TriggerHealthCheckResume
  \/ TriggerErrorStart
  \/ TriggerErrorResume
  \/ TriggerHotReloadStart
  \/ TriggerHotReloadResume

InitTriggers ==
  \E t \in Triggers :
    InitWith(Scope({"a", "b"}, {FALSE}, TRUE, FALSE, t), {FALSE})

\* the trigger methods over two plugins in every lifecycle state, a behaviour
\* calling one trigger method
SpecTriggers == InitTriggers /\ [][NextTriggers]_vars

\* the trigger methods that re-throw a hook error unless continueOnError
FanOutTriggers ==
  {"triggerInit", "triggerStart", "triggerRequest", "triggerResponse", "triggerRoute",
   "triggerBuild", "triggerBuildComplete", "triggerSocket", "triggerSocketClose"}

NextFanOut ==
  \/ UseHooksStart
  \/ UseResume
  \/ TriggerInitStart
  \/ TriggerInitResume
  \/ TriggerStartStart
  \/ TriggerStartResume
  \/ TriggerRequestStart
  \/ TriggerRequestResume
  \/ TriggerResponseStart
  \/ TriggerResponseResume
  \/ TriggerRouteStart
  \/ TriggerRouteResume
  \/ TriggerBuildStart
  \/ TriggerBuildResume
  \/ TriggerBuildCompleteStart
  \/ TriggerBuildCompleteResume
  \/ TriggerSocketStart
  \/ TriggerSocketResume
  \/ TriggerSocketCloseStart
  \/ TriggerSocketCloseResume

InitFanOut ==
  \E t \in FanOutTriggers :
    InitWith(Scope({"a", "b", "c"}, {FALSE}, TRUE, FALSE, t), {FALSE})

\* the fan-out of a trigger method over three plugins that are active or
\* absent, a behaviour calling one trigger method
SpecFanOut == InitFanOut /\ [][NextFanOut]_vars

\* the dependencies arrays of the plugin maps given to the resolver: every
\* array of the names N without a repetition, the name of the plugin itself
\* and names without a plugin included
SortDeps(N) == {d \in SeqsUpTo(N, Cardinality(N)) : NoDup(d)}

\* the key orders of the plugin maps given to the resolver
SortKeys(N) == {ks \in SeqsUpTo(N, Cardinality(N)) : NoDup(ks)}

\* the plugin maps given to the resolver
SortMaps(N) ==
  UNION {{[i \in 1..Len(ks) |-> [key |-> ks[i], value |-> Descriptor(ks[i], ds[i])]] :
            ds \in [1..Len(ks) -> SortDeps(N)]} : ks \in SortKeys(N)}

\* the arrays passed as pluginNames: names in any order, repeated or not,
\* with or without a plugin
SortTargets(N) == SeqsUpTo(N, Cardinality(N))

\* a call topologicalSort(plugins, pluginNames); pluginNames is undefined
\* when given is FALSE
SortCall(given, pluginNames) ==
  [op |-> "topologicalSort", name |-> "", replace |-> FALSE, deps |-> <<>>,
   given |-> given, pluginNames |-> pluginNames]

\* what the call gave: the sorted array as its result, or the error thrown
sortResult(m, r) ==
  [m |-> [m EXCEPT !.result = IF r.threw = NoError THEN Result("sorted", r.sorted)
                               ELSE NoResult],
   threw |-> r.threw]

\* one call of topologicalSort on the plugin map drawn; the function changes
\* nothing, so a further call on the same map gives no state the first call
\* cannot give
TopologicalSort ==
  \E given \in BOOLEAN, pluginNames \in SortTargets(Names) :
    /\ call = NoCall
    /\ given \/ pluginNames = <<>>
    /\ Commit(SortCall(given, pluginNames),
              sortResult(Manager,
                         topologicalSort(plugins, IF given THEN pluginNames
                                                  ELSE MapKeys(plugins))))

NextSort == TopologicalSort

InitSort ==
  /\ scope = Scope(Names, {FALSE}, FALSE, FALSE, "")
  /\ calls = 0
  /\ options = [autoActivate |-> FALSE, continueOnError |-> TRUE]
  /\ plugins \in SortMaps(Names)
  /\ pluginStates = <<>>
  /\ pluginServices = {}
  /\ pluginConfigs = [n \in Names |-> NoConfig]
  /\ pluginErrors = [n \in Names |-> NoError]
  /\ call = NoCall
  /\ threw = NoError
  /\ events = <<>>
  /\ writes = <<>>
  /\ hookLog = <<>>
  /\ prev = [plugins |-> <<>>, pluginStates |-> <<>>, pluginServices |-> {},
             pluginConfigs |-> [n \in Names |-> NoConfig],
             pluginErrors |-> [n \in Names |-> NoError], activations |-> <<>>,
             call |-> NoCall, threw |-> NoError, events |-> <<>>]
  /\ activations = <<>>
  /\ result = NoResult
  /\ pending = <<>>
  /\ emittedAt = <<>>
  /\ listeners = [e \in ListenedEvents |-> <<>>]
  /\ notified = <<>>
  /\ awaited = TRUE
  /\ hotReloadManager \in scope.hotReload

\* topologicalSort applied to every plugin map over the names and every
\* array of names
SpecSort == InitSort /\ [][NextSort]_vars

NextAsync ==
  \/ Register
  \/ InstallStart
  \/ InstallResume

InitAsync ==
  InitWith([Scope({"a", "b"}, {FALSE}, FALSE, FALSE, "") EXCEPT !.pending = MaxPending + 1],
           BOOLEAN)

\* calls of install that interleave at their awaits
SpecAsync == InitAsync /\ [][NextAsync]_vars

\* register of a descriptor with or without hooks, with or without replace
ReplaceHooks ==
  \E n \in scope.names, hooks \in HookSets, replace \in scope.replace :
    Commit([op |-> "register", name |-> n, replace |-> replace, deps |-> <<>>],
           register(Manager, HookDescriptor(n, hooks), replace))

\* the trigger methods whose hooks run in forward order
ForwardTriggers ==
  {"triggerInit", "triggerStart", "triggerRequest", "triggerResponse", "triggerError",
   "triggerRoute", "triggerBuild", "triggerSocket", "triggerHealthCheck",
   "triggerHotReload"}

NextOrder ==
  \/ ReplaceHooks
  \/ UseHooksStart
  \/ UseResume
  \/ Deactivate
  \/ TriggerInitStart
  \/ TriggerInitResume
  \/ TriggerStartStart
  \/ TriggerStartResume
  \/ TriggerRequestStart
  \/ TriggerRequestResume
  \/ TriggerResponseStart
  \/ TriggerResponseResume
  \/ TriggerErrorStart
  \/ TriggerErrorResume
  \/ TriggerRouteStart
  \/ TriggerRouteResume
  \/ TriggerBuildStart
  \/ TriggerBuildResume
  \/ TriggerSocketStart
  \/ TriggerSocketResume
  \/ TriggerHealthCheckStart
  \/ TriggerHealthCheckResume
  \/ TriggerHotReloadStart
  \/ TriggerHotReloadResume

InitOrder ==
  \E t \in ForwardTriggers :
    InitWith([Scope({"a", "b"}, BOOLEAN, TRUE, FALSE, t)
                EXCEPT !.calls = MaxCalls + 1, !.awaits = TRUE], {FALSE})

\* the forward trigger methods over two plugins that are registered,
\* replaced, installed, activated and deactivated by a host that awaits
\* every call before it makes the next
SpecOrder == InitOrder /\ [][NextOrder]_vars

\* a descriptor with a config, a validateConfig and an onConfigUpdate
ConfigDescriptor(name, config, validator, updater) ==
  [name |-> name, dependencies |-> <<>>, hooks |-> {}, config |-> config,
   validateConfig |-> validator, onConfigUpdate |-> updater]

\* a call that takes or registers a config
ConfigCall(op, name, config) ==
  [op |-> op, name |-> name, replace |-> FALSE, deps |-> <<>>, config |-> config]

\* the configs of the descriptors registered: none, one key, both keys
DescriptorConfigs ==
  {NoConfig, ConfigObject([k \in {"x"} |-> 1]), ConfigObject([k \in {"x", "y"} |-> 2])}

RegisterConfig ==
  \E n \in scope.names, config \in DescriptorConfigs,
     validator \in Validators, updater \in Updaters :
    Commit(ConfigCall("register", n, config),
           register(Manager, ConfigDescriptor(n, config, validator, updater), FALSE))

\* the catch handler setConfig leaves on the promise of an onConfigUpdate
\* that rejects, when the call r of setConfig returned
configRejections(m, name, r) ==
  IF /\ r.threw = NoError
     /\ MapGet(m.plugins, name, NoPlugin).onConfigUpdate = "rejects"
  THEN <<[call |-> Call("setConfig:catch", name), prev |-> Snapshot,
          stack |-> <<ConfigCatching(name)>>,
          sig |-> Settled(HookErr("onConfigUpdate", name)), log |-> LogOf(Manager)]>>
  ELSE <<>>

\* setConfig(name, config); the catch handler of a rejecting onConfigUpdate
\* is left for later
SetConfigObject ==
  \E n \in scope.names, config \in ConfigObjects(ConfigKeys) :
    CommitPending(ConfigCall("setConfig", n, config), setConfig(Manager, n, config),
                  configRejections(Manager, n, setConfig(Manager, n, config)))

UpdateConfig ==
  \E n \in scope.names, partialConfig \in ConfigObjects(ConfigKeys) :
    CommitPending(ConfigCall("updateConfig", n, partialConfig),
                  updateConfig(Manager, n, partialConfig),
                  configRejections(Manager, n, updateConfig(Manager, n, partialConfig)))

\* the catch handler of a rejected onConfigUpdate runs
ConfigRejected == \E k \in PendingOf("setConfig:catch") : Resume(k)

NextSettings ==
  \/ RegisterConfig
  \/ SetConfigObject
  \/ UpdateConfig
  \/ ConfigRejected
  \/ UninstallStart

InitSettings ==
  InitWith(Scope({"a"}, {FALSE}, FALSE, FALSE, ""), {FALSE})

\* the config of one plugin under setConfig and updateConfig; the plugin is
\* never active, so uninstall reaches no await
SpecSettings == InitSettings /\ [][NextSettings]_vars

\* a call validateDependencies(name), validateDependencies() when given is
\* FALSE
ValidateCall(given, name) ==
  [op |-> "validateDependencies", name |-> name, replace |-> FALSE, deps |-> <<>>,
   given |-> given]

\* one call of validateDependencies on the registry drawn
ValidateDependencies ==
  \/ \E n \in Names :
       /\ call = NoCall
       /\ Commit(ValidateCall(TRUE, n), validateDependencies(Manager, TRUE, n))
  \/ /\ call = NoCall
     /\ Commit(ValidateCall(FALSE, ""), validateDependencies(Manager, FALSE, ""))

NextValidate == ValidateDependencies

\* validateDependencies on every registry over the names
SpecValidate == InitSort /\ [][NextValidate]_vars

\* a call of a function of the resolver on the plugin map alone
ResolverCall(op) == [op |-> op, name |-> "", replace |-> FALSE, deps |-> <<>>]

\* what detectCircularDependency returned: the cycle, or null
cycleResult(m, cycle) ==
  Ok([m EXCEPT !.result = IF cycle = <<>> THEN Result("null", "")
                           ELSE Result("cycle", cycle)])

\* one call of detectCircularDependency on the plugin map drawn
DetectCircularDependency ==
  /\ call = NoCall
  /\ Commit(ResolverCall("detectCircularDependency"),
            cycleResult(Manager, detectCircularDependency(plugins)))

NextCycle == DetectCircularDependency

\* detectCircularDependency applied to every plugin map over the names
SpecCycle == InitSort /\ [][NextCycle]_vars

\* a descriptor with dependencies that implements every hook, with or
\* without an onConfigUpdate
FullDescriptor(name, dependencies, updater) ==
  [name |-> name, dependencies |-> dependencies, hooks |-> TriggerHooks,
   config |-> NoConfig, validateConfig |-> "none", onConfigUpdate |-> updater]

\* register of a descriptor that implements every hook, and whose
\* onConfigUpdate, if any, rejects
RegisterFull ==
  \E n \in scope.names, replace \in scope.replace :
    \E deps \in DepLists(scope.names, n), updater \in {"none", "rejects"} :
      Commit([op |-> "register", name |-> n, replace |-> replace, deps |-> deps],
             register(Manager, FullDescriptor(n, deps, updater), replace))

UseFullStart ==
  \E n \in scope.names :
    \E deps \in DepLists(scope.names, n) :
      Start(Call("use", n), Using(FullDescriptor(n, deps, "none")))

\* setConfig(name, config) of one config; the catch handler of a rejecting
\* onConfigUpdate is left for later
SetConfigOne ==
  \E n \in scope.names, config \in Configs :
    CommitPending(ConfigCall("setConfig", n, config), setConfig(Manager, n, config),
                  configRejections(Manager, n, setConfig(Manager, n, config)))

UpdateConfigOne ==
  \E n \in scope.names, partialConfig \in Configs :
    CommitPending(ConfigCall("updateConfig", n, partialConfig),
                  updateConfig(Manager, n, partialConfig),
                  configRejections(Manager, n, updateConfig(Manager, n, partialConfig)))

NextErrors ==
  \/ RegisterFull
  \/ UseFullStart
  \/ UseResume
  \/ InstallStart
  \/ InstallResume
  \/ Activate
  \/ Deactivate
  \/ UninstallStart
  \/ UninstallResume
  \/ SetConfigOne
  \/ UpdateConfigOne
  \/ ConfigRejected
  \/ BootstrapStart
  \/ BootstrapResume
  \/ ShutdownStart
  \/ ShutdownResume
  \/ TriggerInitStart
  \/ TriggerInitResume
  \/ TriggerStartStart
  \/ TriggerStartResume
  \/ TriggerStopStart
  \/ TriggerStopResume
  \/ TriggerShutdownStart
  \/ TriggerShutdownResume
  \/ TriggerRequestStart
  \/ TriggerRequestResume
  \/ TriggerResponseStart
  \/ TriggerResponseResume
  \/ TriggerRouteStart
  \/ TriggerRouteResume
  \/ TriggerBuildStart
  \/ TriggerBuildResume
  \/ TriggerBuildCompleteStart
  \/ TriggerBuildCompleteResume
  \/ TriggerSocketStart
  \/ TriggerSocketResume
  \/ TriggerSocketCloseStart
  \/ TriggerSocketCloseResume
  \/ TriggerHealthCheckStart
  \/ TriggerHealthCheckResume
  \/ TriggerErrorStart
  \/ TriggerErrorResume
  \/ TriggerHotReloadStart
  \/ TriggerHotReloadResume

\* what the host of the recorded errors calls: triggerInit among calls it
\* awaits one by one, any other trigger method among one call fewer, or
\* triggerInit among calls that overlap, one fewer as well
ErrorScopes ==
  {[Scope({"a", "b"}, BOOLEAN, TRUE, FALSE, "triggerInit") EXCEPT !.awaits = TRUE]}
  \cup {[Scope({"a", "b"}, BOOLEAN, TRUE, FALSE, t)
           EXCEPT !.awaits = TRUE, !.calls = MaxCalls - 1] : t \in Triggers \ {"triggerInit"}}
  \cup {[Scope({"a", "b"}, BOOLEAN, TRUE, FALSE, "triggerInit")
           EXCEPT !.calls = MaxCalls - 1]}

InitErrors == \E sc \in ErrorScopes : InitWith(sc, BOOLEAN)

\* the recorded errors of two plugins under every lifecycle, config and
\* trigger method, a behaviour calling one trigger method
SpecErrors == InitErrors /\ [][NextErrors]_vars

\* manager.on(event, listener)
On ==
  \E event \in ListenedEvents, listener \in Listeners :
    Commit([op |-> "on", name |-> "", replace |-> FALSE, deps |-> <<>>,
            event |-> event, listener |-> listener],
           on(Manager, event, listener))

\* manager.off(event, listener)
Off ==
  \E event \in ListenedEvents, listener \in Listeners :
    Commit([op |-> "off", name |-> "", replace |-> FALSE, deps |-> <<>>,
            event |-> event, listener |-> listener],
           off(Manager, event, listener))

\* the events the host emits itself: the listened events and one without
\* listeners
EmittedEvents == ListenedEvents \cup {"custom"}

\* manager.emit(event, name): the host emits an event with a plugin name as
\* its argument
Emit ==
  \E event \in EmittedEvents, n \in scope.names :
    Commit([op |-> "emit", name |-> n, replace |-> FALSE, deps |-> <<>>, event |-> event],
           emit(Manager, event, n))

NextListeners ==
  \/ On
  \/ Off
  \/ Emit
  \/ Register
  \/ InstallStart
  \/ InstallResume
  \/ Activate
  \/ Deactivate
  \/ UninstallStart
  \/ UninstallResume

InitListeners ==
  InitWith([Scope({"a"}, {FALSE}, TRUE, FALSE, "")
              EXCEPT !.calls = MaxCalls + 2, !.awaits = TRUE], {FALSE})

\* the lifecycle of one plugin with listeners on its events, under a host
\* that awaits every call before it makes the next
SpecListeners == InitListeners /\ [][NextListeners]_vars

NextSuspend ==
  \/ ReplaceHooks
  \/ UseHooksStart
  \/ UseResume
  \/ InstallStart
  \/ InstallResume
  \/ Activate
  \/ Deactivate
  \/ UninstallStart
  \/ UninstallResume
  \/ TriggerInitStart
  \/ TriggerInitResume

InitSuspend ==
  InitWith(Scope({"a", "b"}, BOOLEAN, TRUE, FALSE, "triggerInit"), {FALSE})

\* lifecycle calls made while calls of triggerInit wait for a hook
SpecSuspend == InitSuspend /\ [][NextSuspend]_vars

\* a change of the watched file of a plugin: the file fails to load, or it
\* holds a descriptor of the plugin with some dependencies
ReloadCall(name, deps, loaded) ==
  [op |-> "reloadPluginFromFile", name |-> name, replace |-> FALSE, deps |-> deps,
   loaded |-> loaded]

ReloadPluginFromFileStart ==
  \E n \in scope.names, loaded \in BOOLEAN :
    \E deps \in IF loaded THEN DepLists(scope.names, n) ELSE {<<>>} :
      Start(ReloadCall(n, deps, loaded), Reloading(loaded, Descriptor(n, deps)))

ReloadPluginFromFileResume == \E k \in PendingOf("reloadPluginFromFile") : Resume(k)

\* the files the host loads plugins from: a file that fails to load, or one
\* that holds a descriptor of a plugin with some dependencies; file tells
\* whether the path is one of a file that ends with .ts or .js
PluginFiles ==
  UNION {{[stat |-> TRUE, file |-> TRUE, loaded |-> FALSE, plugin |-> Descriptor(n, <<>>)]}
         \cup {[stat |-> TRUE, file |-> TRUE, loaded |-> TRUE,
                 plugin |-> Descriptor(n, deps)] :
                 deps \in DepLists(scope.names, n)} : n \in scope.names}

\* a call loadFromFile(path)
LoadCall(path) ==
  [op |-> "loadFromFile", name |-> path.plugin.name, replace |-> FALSE,
   deps |-> path.plugin.dependencies, loaded |-> path.loaded]

LoadFromFileStart == \E path \in PluginFiles : Start(LoadCall(path), LoadingFile(path))

LoadFromFileResume == \E k \in PendingOf("loadFromFile") : Resume(k)

\* the largest number of entries of a directory
MaxEntries == 2

\* an entry of a directory that is no plugin file: a directory, or a file
\* with another extension
OtherEntry ==
  [stat |-> TRUE, file |-> FALSE, loaded |-> FALSE, plugin |-> Descriptor("", <<>>)]

\* an entry of a directory on which stat fails
BrokenEntry ==
  [stat |-> FALSE, file |-> FALSE, loaded |-> FALSE, plugin |-> Descriptor("", <<>>)]

\* the entries of the directories the host loads from: plugin files without
\* dependencies, entries that are no plugin file, and entries stat fails on
Entries ==
  {path \in PluginFiles : path.plugin.dependencies = <<>>} \cup {OtherEntry, BrokenEntry}

\* what readdir gives for the directories the host loads from
Directories == SeqsUpTo(Entries, MaxEntries)

\* a call loadFromDirectory(directory); the entries of the directory are held
\* in the frame of the call
DirectoryCall(readable) ==
  [op |-> "loadFromDirectory", name |-> "", replace |-> FALSE, deps |-> <<>>,
   readable |-> readable]

LoadFromDirectoryStart ==
  \E readable \in BOOLEAN :
    \E entries \in IF readable THEN Directories ELSE {<<>>} :
      Start(DirectoryCall(readable), LoadingDirectory(readable, entries))

LoadFromDirectoryResume == \E k \in PendingOf("loadFromDirectory") : Resume(k)

StopHotReload == Commit(Call("stopHotReload", ""), stopHotReload(Manager))

Dispose == Commit(Call("dispose", ""), dispose(Manager))

NextReload ==
  \/ Register
  \/ InstallStart
  \/ InstallResume
  \/ Activate
  \/ Deactivate
  \/ UninstallStart
  \/ UninstallResume
  \/ SetConfig
  \/ ReloadPluginFromFileStart
  \/ ReloadPluginFromFileResume
  \/ LoadFromFileStart
  \/ LoadFromFileResume
  \/ StopHotReload
  \/ Dispose

InitReload ==
  InitWith([Scope({"a", "b"}, BOOLEAN, TRUE, FALSE, "") EXCEPT !.hotReload = BOOLEAN],
           {FALSE})

\* the lifecycle of two plugins whose files are watched
SpecReload == InitReload /\ [][NextReload]_vars

NextDispose ==
  \/ Register
  \/ InstallStart
  \/ InstallResume
  \/ LoadFromDirectoryStart
  \/ LoadFromDirectoryResume
  \/ StopHotReload
  \/ Dispose

InitDispose ==
  InitWith([Scope({"a", "b"}, {FALSE}, TRUE, FALSE, "") EXCEPT !.hotReload = BOOLEAN],
           {FALSE})

\* calls of install and loads of plugin directories that interleave at
\* their awaits with dispose
SpecDispose == InitDispose /\ [][NextDispose]_vars


\* ------------------------------------------------------------------------
\* Vocabulary of the properties
\* ------------------------------------------------------------------------

\* the method of the call that took the last step
Op == IF call.op = "await" THEN call.of ELSE call.op

PrevState(n) == MapGet(prev.pluginStates, n, NoState)
CurState(n) == MapGet(pluginStates, n, NoState)
WasRegistered(n) == MapHas(prev.plugins, n)
PrevDeps(n) == DepsOf(prev.plugins, n)

LifecycleEvents ==
  {"plugin:registered", "plugin:replaced", "plugin:installed", "plugin:activated",
   "plugin:deactivated", "plugin:uninstalled"}

\* the names of the events of one type the last call emitted, in order
EventNames(type) == MapKeys(SelectSeq([i \in 1..Len(events) |->
                                        [key |-> events[i].name, value |-> events[i].type]],
                                      LAMBDA e : e.value = type))

\* the names whose hook the last call invoked, in order
HookNames(hook) == MapKeys(SelectSeq([i \in 1..Len(hookLog) |->
                                       [key |-> hookLog[i].name, value |-> hookLog[i].hook]],
                                     LAMBDA e : e.value = hook))

\* the call threw and neither changed a state nor emitted a lifecycle event
Rejected ==
  /\ threw # NoError
  /\ pluginStates = prev.pluginStates
  /\ \A i \in 1..Len(events) : events[i].type \notin LifecycleEvents

\* the names reachable from the names S along declared dependencies
RECURSIVE ReachFrom(_, _)
ReachFrom(plugs, S) ==
  LET more == S \cup UNION {Range(DepsOf(plugs, n)) : n \in S}
  IN IF more = S THEN S ELSE ReachFrom(plugs, more)

Closure(plugs, n) == ReachFrom(plugs, {n})

\* among the names S: no name depends, directly or not, on itself, and every
\* declared dependency is registered
GraphOK(plugs, S) ==
  /\ \A n \in S : n \notin ReachFrom(plugs, Range(DepsOf(plugs, n)))
  /\ \A n \in S : MapHas(plugs, n) /\ \A d \in Range(DepsOf(plugs, n)) : MapHas(plugs, d)

Registered(plugs) == Range(MapKeys(plugs))

\* ------------------------------------------------------------------------
\* Properties
\* ------------------------------------------------------------------------

\* C1: install acts only on a registered plugin, activate only on an
\* installed or inactive one, deactivate only on an active one; in any other
\* state the call throws, whatever continueOnError is, no plugin's state
\* changes and no lifecycle event is emitted.
C1_WrongStateRejected ==
  /\ (call.op = "install" /\ PrevState(call.name) # "registered") => Rejected
  /\ (call.op = "activate" /\ PrevState(call.name) \notin {"installed", "inactive"})
       => Rejected
  /\ (call.op = "deactivate" /\ PrevState(call.name) # "active") => Rejected

C1_Witness ==
  /\ call.op = "deactivate"
  /\ PrevState(call.name) = "installed"
  /\ threw.kind = "pluginWrongStateDeactivate"
  /\ options.continueOnError

\* the declared dependencies of the activated plugin that were not active
Unmet == {d \in Range(PrevDeps(call.name)) : PrevState(d) # "active"}

\* C2 as stated: activate(P) throws the dependency-not-active error naming an
\* unmet dependency and leaves P's state unchanged whenever a declared
\* dependency is not active; it succeeds when P is installed or inactive and
\* every dependency is active.
C2_Original ==
  call.op = "activate" /\ WasRegistered(call.name) =>
    /\ Unmet # {} =>
         /\ threw.kind = "pluginDependencyNotActive"
         /\ threw.dep \in Unmet
         /\ CurState(call.name) = PrevState(call.name)
    /\ (Unmet = {} /\ PrevState(call.name) \in {"installed", "inactive"}) =>
         threw = NoError /\ CurState(call.name) = "active"

\* C2 amended: when P is installed or inactive, activate(P) throws the
\* dependency-not-active error naming the first declared dependency that is
\* not active (with its state) and changes no state, whatever continueOnError
\* is; when every declared dependency is active it succeeds and P is active.
C2_ActivateChecksDependencies ==
  (call.op = "activate" /\ PrevState(call.name) \in {"installed", "inactive"}) =>
    IF Unmet # {}
    THEN /\ threw.kind = "pluginDependencyNotActive"
         /\ threw.name = call.name
         /\ threw.dep \in Unmet
         /\ \A i \in 1..Len(PrevDeps(call.name)) :
              PrevDeps(call.name)[i] = threw.dep =>
                \A j \in 1..(i - 1) : PrevDeps(call.name)[j] \notin Unmet
         /\ threw.state = PrevState(threw.dep)
         /\ pluginStates = prev.pluginStates
    ELSE /\ threw = NoError
         /\ CurState(call.name) = "active"

C2_Witness ==
  /\ call.op = "activate"
  /\ PrevState(call.name) = "inactive"
  /\ threw.kind = "pluginDependencyNotActive"
  /\ threw.state = "inactive"
  /\ options.continueOnError

\* what C3 promises of a call install(name): no error, every registered
\* member of the closure is installed and nothing else changes, one
\* plugin:installed event per installed member, dependencies first, name last
InstallsClosure ==
  LET installed == EventNames("plugin:installed")
      closure == Closure(prev.plugins, call.name)
      todo == {d \in closure : PrevState(d) = "registered"}
  IN /\ threw = NoError
     /\ \A n \in Names : CurState(n) = IF n \in todo THEN "installed" ELSE PrevState(n)
     /\ Range(installed) = todo
     /\ NoDup(installed)
     /\ \A i, j \in 1..Len(installed) :
          installed[j] \in Range(PrevDeps(installed[i])) => j < i
     /\ installed[Len(installed)] = call.name

\* C3 as stated: install(name), awaited by the host, on a registered plugin
\* whose own dependency graph is acyclic and fully registered installs the
\* registered members of its closure, dependencies before dependents, name
\* last.
C3_Original ==
  (/\ call.op = "install"
   /\ awaited
   /\ PrevState(call.name) = "registered"
   /\ GraphOK(prev.plugins, Closure(prev.plugins, call.name))) => InstallsClosure

\* C3 amended: with autoActivate off, install(name), awaited by the host, on
\* a registered plugin, when no registered plugin at all is on a dependency
\* cycle or declares an unregistered dependency, installs the registered
\* members of name's closure, dependencies before dependents, name last.
C3_InstallsClosureInOrder ==
  (/\ call.op = "install"
   /\ awaited
   /\ PrevState(call.name) = "registered"
   /\ ~options.autoActivate
   /\ GraphOK(prev.plugins, Registered(prev.plugins))) => InstallsClosure

C3_Witness ==
  /\ call.op = "install"
  /\ awaited
  /\ ~options.autoActivate
  /\ threw = NoError
  /\ Len(EventNames("plugin:installed")) = 3
  /\ Len(PrevDeps(call.name)) = 1
  /\ \E d \in Names : PrevDeps(call.name) = <<d>> /\ Len(PrevDeps(d)) = 1

\* C4: when the dependency graph of name has a cycle or an unregistered
\* dependency, install(name) throws the cycle / missing-dependency error,
\* whatever continueOnError is, and no plugin's state changes. The host
\* awaits every call.
C4_InstallThrowsGraphError ==
  (/\ call.op = "install"
   /\ awaited
   /\ PrevState(call.name) = "registered"
   /\ ~GraphOK(prev.plugins, Closure(prev.plugins, call.name))) =>
    /\ threw.kind \in {"circularDependency", "missingDependency"}
    /\ pluginStates = prev.pluginStates

\* the writes of states that registering a plugin makes: the first state of
\* a new name, and with replace:true the reset through the deleted entry
RegistrationWrite(w) ==
  \/ Op \in {"register", "use"} /\ w.name = call.name
       /\ w.from = NoState /\ w.to = "registered"
  \/ call.op = "register" /\ call.replace /\ w.name = call.name /\ w.to = NoState

ChainEdges ==
  {<<"registered", "installed">>, <<"installed", "active">>, <<"active", "inactive">>,
   <<"inactive", "active">>, <<"active", "uninstalled">>, <<"inactive", "uninstalled">>}

\* C5 as stated: in a sequence of calls that the host awaits one by one,
\* every change of a plugin's state is one of
\* registered->installed, installed->active, active->inactive,
\* inactive->active, active->uninstalled, inactive->uninstalled, or the reset
\* to registered of register with replace:true.
C5_Original ==
  awaited =>
    \A i \in 1..Len(writes) :
      <<writes[i].from, writes[i].to>> \in ChainEdges \/ RegistrationWrite(writes[i])

\* C5 amended: in a sequence of calls that the host awaits one by one, every
\* change of a plugin's state is one of the edges above or
\* installed->uninstalled or registered->uninstalled (uninstall accepts every
\* state), or the reset to registered of register with replace:true.
C5_LegalTransitions ==
  awaited =>
    \A i \in 1..Len(writes) :
      \/ <<writes[i].from, writes[i].to>> \in
           ChainEdges \cup {<<"installed", "uninstalled">>, <<"registered", "uninstalled">>}
      \/ RegistrationWrite(writes[i])

\* uninstall took a plugin from installed to uninstalled
C5_Witness ==
  /\ call.op = "uninstall"
  /\ awaited
  /\ threw = NoError
  /\ writes = <<[name |-> call.name, from |-> "installed", to |-> "uninstalled"]>>

\* C6: once a plugin is in state uninstalled no call to install, activate,
\* deactivate, uninstall, use, bootstrap or shutdown changes its state: no
\* call writes the state of a plugin that is uninstalled when it is
\* written, but register with replace:true of that plugin, which deletes
\* the state and leaves the plugin registered.
C6_UninstalledIsTerminal ==
  \A i \in 1..Len(writes) :
    writes[i].from = "uninstalled" =>
      /\ call.op = "register" /\ call.replace /\ call.name = writes[i].name
      /\ writes[i].to = NoState
      /\ CurState(call.name) = "registered"

\* C7: register with replace:true on an existing name succeeds from every
\* lifecycle state, leaves the name registered with no runtime config and no
\* recorded error, and emits exactly plugin:replaced then plugin:registered.
C7_ReplaceResets ==
  (call.op = "register" /\ call.replace /\ WasRegistered(call.name)) =>
    /\ threw = NoError
    /\ CurState(call.name) = "registered"
    /\ pluginConfigs[call.name] = NoConfig
    /\ pluginErrors[call.name] = NoError
    /\ events = <<[type |-> "plugin:replaced", name |-> call.name],
                  [type |-> "plugin:registered", name |-> call.name]>>

C7_Witness ==
  /\ call.op = "register" /\ call.replace
  /\ PrevState(call.name) = "active"
  /\ prev.pluginConfigs[call.name] # NoConfig
  /\ prev.pluginErrors[call.name] # NoError
  /\ CurState(call.name) = "registered"

\* C8: register without replace of a name already in the registry throws the
\* already-registered error in every lifecycle state of the name, leaves the
\* stored descriptor, state, runtime config and recorded error as they were
\* and emits no event.
C8_DuplicateRejected ==
  (call.op = "register" /\ ~call.replace /\ WasRegistered(call.name)) =>
    /\ threw.kind = "pluginAlreadyRegistered"
    /\ plugins = prev.plugins
    /\ pluginStates = prev.pluginStates
    /\ pluginConfigs = prev.pluginConfigs
    /\ pluginErrors = prev.pluginErrors
    /\ events = <<>>

C8_Witness ==
  /\ call.op = "register" /\ ~call.replace
  /\ PrevState(call.name) = "uninstalled"
  /\ call.deps # PrevDeps(call.name)
  /\ threw.kind = "pluginAlreadyRegistered"

\* C9: shutdown(), awaited by the host as every call before it, invokes
\* onStop and onShutdown on the active plugins in the reverse of their
\* activation order, and deactivates them in that order.
C9_ReverseActivationOrder ==
  (call.op = "shutdown" /\ awaited /\ threw = NoError) =>
    /\ HookNames("onStop") = Reverse(prev.activations)
    /\ HookNames("onShutdown") = Reverse(prev.activations)
    /\ EventNames("plugin:deactivated") = Reverse(prev.activations)

\* C10: shutdown(), awaited by the host, completes whatever continueOnError
\* is and whichever hooks throw; afterwards every plugin that was installed,
\* active or inactive is uninstalled and every other plugin has the state it
\* had.
C10_ShutdownCompletes ==
  (call.op = "shutdown" /\ awaited) =>
    /\ threw = NoError
    /\ \A n \in Names :
         CurState(n) = IF PrevState(n) \in {"installed", "active", "inactive"}
                       THEN "uninstalled" ELSE PrevState(n)

\* C12: bootstrap(), awaited by the host, on freshly registered plugins whose
\* dependency graph is acyclic and fully registered ends with every
\* registered plugin active and activates each dependency before its
\* dependents.
C12_BootstrapDependencyOrder ==
  (/\ call.op = "bootstrap"
   /\ awaited
   /\ Registered(prev.plugins) # {}
   /\ \A n \in Registered(prev.plugins) : PrevState(n) = "registered"
   /\ GraphOK(prev.plugins, Registered(prev.plugins))) =>
    LET activated == EventNames("plugin:activated")
    IN /\ \A n \in Registered(prev.plugins) : CurState(n) = "active"
       /\ Range(activated) = Registered(prev.plugins)
       /\ \A i, j \in 1..Len(activated) :
            activated[j] \in Range(PrevDeps(activated[i])) => j < i

\* C14: whenever use(P), awaited by the host, returns without throwing, P is
\* active.
C14_UseEndsActive ==
  (call.op = "use" /\ awaited /\ threw = NoError) => CurState(call.name) = "active"

\* the number of plugin:activated events for n among the events evs
ActivatedCount(evs, n) ==
  Cardinality({i \in 1..Len(evs) : evs[i] = [type |-> "plugin:activated", name |-> n]})

\* the last two calls were use of the same descriptor, each awaited by the
\* host
UsedTwice ==
  /\ call.op = "use" /\ prev.call.op = "use"
  /\ awaited
  /\ call.name = prev.call.name /\ call.deps = prev.call.deps

\* after use(P) twice: P is active, the two calls emitted one plugin:activated
\* for P, and the second changed no state and emitted no lifecycle event
SecondUseIsNoOp ==
  /\ CurState(call.name) = "active"
  /\ ActivatedCount(prev.events, call.name) + ActivatedCount(events, call.name) = 1
  /\ pluginStates = prev.pluginStates
  /\ \A i \in 1..Len(events) : events[i].type \notin LifecycleEvents

\* C13 as stated: calling use(P) twice in a row leaves P active with exactly
\* one plugin:activated event for P in total, the second call being a no-op.
C13_Original == UsedTwice => SecondUseIsNoOp

\* C13 amended: when the first use(P) returned without throwing and activated
\* P, the second use(P) returns without throwing, P is active, the two calls
\* emitted exactly one plugin:activated for P, and the second call changed no
\* plugin's state and emitted no lifecycle event.
C13_UseTwice ==
  (/\ UsedTwice
   /\ prev.threw = NoError
   /\ ActivatedCount(prev.events, call.name) >= 1) =>
    threw = NoError /\ SecondUseIsNoOp

C13_Witness ==
  /\ UsedTwice
  /\ prev.threw = NoError
  /\ ActivatedCount(prev.events, call.name) = 1
  /\ call.deps # <<>>
  /\ CurState(call.name) = "active"

\* the hook a trigger method calls
HookOf(op) ==
  CASE op = "triggerInit" -> "onInit"
    [] op = "triggerStart" -> "onStart"
    [] op = "triggerStop" -> "onStop"
    [] op = "triggerShutdown" -> "onShutdown"
    [] op = "triggerRequest" -> "onRequest"
    [] op = "triggerResponse" -> "onResponse"
    [] op = "triggerRoute" -> "onRoute"
    [] op = "triggerBuild" -> "onBuild"
    [] op = "triggerBuildComplete" -> "onBuildComplete"
    [] op = "triggerSocket" -> "onSocket"
    [] op = "triggerSocketClose" -> "onSocketClose"
    [] op = "triggerHealthCheck" -> "onHealthCheck"
    [] op = "triggerError" -> "onError"
    [] op = "triggerHotReload" -> "onHotReload"
    [] OTHER -> ""

\* the hooks the descriptor of n implemented when the last call started
PrevHooks(n) == MapGet(prev.plugins, n, NoPlugin).hooks

\* the plugins that were active and implemented hook when the last call
\* started, in the key order of pluginStates
PrevActiveWith(hook) ==
  MapKeys(SelectSeq(prev.pluginStates,
                    LAMBDA e : e.value = "active" /\ hook \in PrevHooks(e.key)))

\* the plugins whose hook threw during the last call
Threw(hook) == call.throwers \cap Range(HookNames(hook))

\* the first k elements of a sequence
Prefix(seq, k) == SubSeq(seq, 1, k)

\* C11: triggerStop and triggerShutdown, awaited by the host, never re-throw
\* a hook error: every active plugin that implements the hook has it
\* invoked, in reverse order, even when the hook of an earlier plugin threw.
C11_StopNeverRethrows ==
  (call.op \in {"triggerStop", "triggerShutdown"} /\ awaited) =>
    /\ threw = NoError
    /\ HookNames(HookOf(call.op)) = Reverse(PrevActiveWith(HookOf(call.op)))

\* the events plugin:error of the last call that name n
ErrorCount(n) ==
  Cardinality({i \in 1..Len(events) : events[i] = [type |-> "plugin:error", name |-> n]})

\* every plugin whose hook threw has that error as its last error and one
\* plugin:error event
ErrorsRecorded(hook) ==
  \A n \in Threw(hook) : pluginErrors[n] = HookErr(hook, n) /\ ErrorCount(n) = 1

\* C15 as stated: with continueOnError, a hook that throws in one of the nine
\* fan-out triggers does not make the call throw, the hook of every other active
\* plugin is invoked, and the error is recorded and emitted once.
C15_Original ==
  (/\ call.op \in FanOutTriggers
   /\ options.continueOnError
   /\ Threw(HookOf(call.op)) # {}) =>
    /\ threw = NoError
    /\ HookNames(HookOf(call.op)) = PrevActiveWith(HookOf(call.op))
    /\ ErrorsRecorded(HookOf(call.op))

\* the plugins a fan-out reaches when no error is re-thrown: every active
\* plugin with the hook, in triggerRequest up to the first one that returns a
\* Response
RECURSIVE UpToResponse(_, _)
UpToResponse(order, i) ==
  IF i > Len(order) THEN order
  ELSE IF order[i] \in call.responders \ call.throwers THEN Prefix(order, i)
  ELSE UpToResponse(order, i + 1)

\* C15 amended: with continueOnError, a hook that throws in one of the nine
\* fan-out triggers does not make the call throw, the hooks of the later active
\* plugins are still invoked (in triggerRequest until one returns a
\* Response), and the error is recorded and emitted once.
C15_ContinueOnError ==
  (/\ call.op \in FanOutTriggers
   /\ options.continueOnError
   /\ Threw(HookOf(call.op)) # {}) =>
    /\ threw = NoError
    /\ HookNames(HookOf(call.op)) = UpToResponse(PrevActiveWith(HookOf(call.op)), 1)
    /\ ErrorsRecorded(HookOf(call.op))

C15_Witness ==
  /\ call.op \in FanOutTriggers \ {"triggerRequest"}
  /\ options.continueOnError
  /\ Len(HookNames(HookOf(call.op))) = 3
  /\ HookNames(HookOf(call.op))[1] \in call.throwers
  /\ HookNames(HookOf(call.op))[3] \notin call.throwers
  /\ threw = NoError

\* C16: with continueOnError off, the first hook error of a fan-out trigger is
\* recorded against the failing plugin, emitted as plugin:error and re-thrown,
\* and no later plugin has its hook invoked.
C16_FirstErrorRethrown ==
  (/\ call.op \in FanOutTriggers
   /\ ~options.continueOnError
   /\ Threw(HookOf(call.op)) # {}) =>
    LET invoked == HookNames(HookOf(call.op))
        failing == invoked[Len(invoked)]
    IN /\ Threw(HookOf(call.op)) = {failing}
       /\ threw = HookErr(HookOf(call.op), failing)
       /\ pluginErrors[failing] = HookErr(HookOf(call.op), failing)
       /\ EventNames("plugin:error") = <<failing>>
       /\ invoked = Prefix(PrevActiveWith(HookOf(call.op)), Len(invoked))
       /\ result = NoResult

C16_Witness ==
  /\ call.op \in FanOutTriggers
  /\ ~options.continueOnError
  /\ Len(PrevActiveWith(HookOf(call.op))) = 3
  /\ Len(HookNames(HookOf(call.op))) = 2
  /\ threw # NoError
  /\ call.throwers = Range(PrevActiveWith(HookOf(call.op))) \ {HookNames(HookOf(call.op))[1]}

\* C17: a trigger method invokes hooks only on plugins that were active when
\* the call started.
C17_OnlyActiveReceive ==
  call.op \in Triggers =>
    \A i \in 1..Len(hookLog) : PrevState(hookLog[i].name) = "active"

C17_Witness ==
  /\ call.op \in Triggers
  /\ hookLog # <<>>
  /\ \E n \in Names :
       /\ PrevState(n) \in {"registered", "installed", "inactive", "uninstalled"}
       /\ PrevHooks(n) # {}

\* the plugins whose onRequest returned a Response during the last call
Responded == (call.responders \ call.throwers) \cap Range(HookNames("onRequest"))

\* C18: in triggerRequest the first Response returned ends the fan-out and is
\* the result; without a Response and without a hook error every active
\* plugin's onRequest is invoked exactly once and the result is undefined.
C18_RequestShortCircuit ==
  call.op = "triggerRequest" =>
    LET invoked == HookNames("onRequest")
        active == PrevActiveWith("onRequest")
    IN /\ Responded # {} =>
            /\ Responded = {invoked[Len(invoked)]}
            /\ result = Result("response", invoked[Len(invoked)])
            /\ threw = NoError
       /\ ((call.responders \ call.throwers) \cap Range(active) = {}
           /\ call.throwers \cap Range(active) = {}) =>
            /\ invoked = active
            /\ threw = NoError
            /\ result = NoResult

C18_Witness ==
  /\ call.op = "triggerRequest"
  /\ Len(PrevActiveWith("onRequest")) = 3
  /\ Len(HookNames("onRequest")) = 2
  /\ result.kind = "response"
  /\ call.responders = Range(PrevActiveWith("onRequest"))
                         \ {HookNames("onRequest")[1]}

\* the answers of the onHealthCheck hooks of the active plugins
Answers == {call.answers[n] : n \in Range(PrevActiveWith("onHealthCheck"))}

\* C19: the overall status of triggerHealthCheck is unhealthy if a hook
\* answers unhealthy or throws, else degraded if one answers degraded, else
\* healthy, whatever the order of the plugins.
C19_HealthAggregation ==
  call.op = "triggerHealthCheck" =>
    /\ threw = NoError
    /\ result = Result("status",
                       IF Answers \cap {"unhealthy", "throws"} # {} THEN "unhealthy"
                       ELSE IF "degraded" \in Answers THEN "degraded"
                       ELSE "healthy")

C19_Witness ==
  /\ call.op = "triggerHealthCheck"
  /\ Len(HookNames("onHealthCheck")) = 2
  /\ call.answers[HookNames("onHealthCheck")[1]] = "unhealthy"
  /\ call.answers[HookNames("onHealthCheck")[2]] = "degraded"
  /\ result = Result("status", "unhealthy")

\* the names the last call of topologicalSort was asked to sort
SortRequested ==
  IF call.given THEN Range(call.pluginNames) ELSE Registered(plugins)

\* C20: for an acyclic plugin map without missing dependencies and a requested
\* subset of its names, topologicalSort returns a sequence that contains each
\* name of the subset exactly once and no other name, and in which every
\* dependency precedes each plugin that declares it.
C20_SortIsOrderedPermutation ==
  (/\ call.op = "topologicalSort"
   /\ GraphOK(plugins, Registered(plugins))
   /\ SortRequested \subseteq Registered(plugins)) =>
    /\ threw = NoError
    /\ result.kind = "sorted"
    /\ Range(result.value) = SortRequested
    /\ NoDup(result.value)
    /\ \A i, j \in 1..Len(result.value) :
         result.value[j] \in Range(DepsOf(plugins, result.value[i])) => j < i

C20_Witness ==
  /\ call.op = "topologicalSort"
  /\ GraphOK(plugins, Registered(plugins))
  /\ call.given
  /\ call.pluginNames = <<"a", "c">>
  /\ DepsOf(plugins, "a") = <<"b", "c">>
  /\ DepsOf(plugins, "b") = <<"c">>
  /\ result = Result("sorted", <<"c", "a">>)

\* no plugin of the map depends, directly or through plugins of the map, on
\* itself
Acyclic(plugs) ==
  \A n \in Registered(plugs) : n \notin ReachFrom(plugs, Range(DepsOf(plugs, n)))

\* C21: detectCircularDependency returns null exactly when the dependency
\* graph restricted to the known names has no cycle (a self-dependency is
\* one); otherwise it returns a non-empty list in which every element
\* declares the element that follows it as a dependency.
C21_CycleDetected ==
  call.op = "detectCircularDependency" =>
    /\ (result = Result("null", "")) <=> Acyclic(plugins)
    /\ result # Result("null", "") =>
         /\ result.kind = "cycle"
         /\ result.value # <<>>
         /\ \A i \in 1..(Len(result.value) - 1) :
              /\ MapHas(plugins, result.value[i])
              /\ result.value[i + 1] \in Range(DepsOf(plugins, result.value[i]))

C21_Witness ==
  /\ call.op = "detectCircularDependency"
  /\ MapKeys(plugins) = <<"a", "b", "c">>
  /\ DepsOf(plugins, "a") = <<"b">>
  /\ DepsOf(plugins, "b") = <<"a", "c">>
  /\ DepsOf(plugins, "c") = <<"b">>
  /\ result = Result("cycle", <<"a", "b", "a">>)

\* C22: across any sequence or interleaving of install calls each plugin is
\* installed at most once per registration: every installation finds the
\* plugin registered and not yet installed, and no call emits
\* plugin:installed twice for one plugin.
C22_InstalledOnce ==
  Op = "install" =>
    /\ \A i \in 1..Len(writes) :
         writes[i].to = "installed" => writes[i].from = "registered"
    /\ NoDup(EventNames("plugin:installed"))

\* C23: when install, activate, deactivate or uninstall, awaited by the
\* host, fails, by throwing or by recording an error for the plugin, the
\* state of every plugin after the call equals its state before the call.
C23_FailedTransitionRolledBack ==
  (/\ call.op \in {"install", "activate", "deactivate", "uninstall"}
   /\ awaited
   /\ (threw # NoError \/ EventNames("plugin:error") # <<>>)) =>
    pluginStates = prev.pluginStates

\* what getConfig(n) returns now and what it returned when the last call
\* started
ConfigNow(n) == getConfig(Manager, n)
ConfigBefore(n) == getConfig(prev, n)

\* the config the last call of setConfig or updateConfig asked to write
ConfigAsked ==
  IF call.op = "setConfig" THEN call.config
  ELSE Spread(orEmpty(ConfigBefore(call.name)), call.config)

\* the validateConfig of the plugin rejected the config of the last call
ConfigRejectedByPlugin ==
  /\ call.op \in {"setConfig", "updateConfig"}
  /\ WasRegistered(call.name)
  /\ ~validateConfig(MapGet(prev.plugins, call.name, NoPlugin).validateConfig, ConfigAsked)

\* C24: when validateConfig rejects the new config, setConfig and updateConfig
\* throw a validation error, getConfig returns what it returned before, no
\* plugin:config:updated event is emitted and onConfigUpdate is not called.
C24_RejectedConfigChangesNothing ==
  ConfigRejectedByPlugin =>
    /\ threw = Err("pluginConfigValidationFailed", call.name, "", "")
    /\ \A n \in Names : ConfigNow(n) = ConfigBefore(n)
    /\ pluginConfigs = prev.pluginConfigs
    /\ EventNames("plugin:config:updated") = <<>>
    /\ HookNames("onConfigUpdate") = <<>>

C24_Witness ==
  /\ ConfigRejectedByPlugin
  /\ call.op = "updateConfig"
  /\ validateConfig(MapGet(prev.plugins, call.name, NoPlugin).validateConfig, call.config)
  /\ MapGet(prev.plugins, call.name, NoPlugin).onConfigUpdate = "returns"
  /\ ConfigBefore(call.name).defined
  /\ threw.kind = "pluginConfigValidationFailed"

\* C26: after setConfig(name, c) succeeds getConfig(name) is c; after
\* updateConfig(name, partial) succeeds getConfig(name) is the previous
\* getConfig(name) overridden key by key with partial; without a runtime
\* config getConfig(name) is the config of the descriptor.
C26_ConfigReadBack ==
  /\ (call.op = "setConfig" /\ threw = NoError) => ConfigNow(call.name) = call.config
  /\ (call.op = "updateConfig" /\ threw = NoError) =>
       LET before == orEmpty(ConfigBefore(call.name)).entries
           partial == call.config.entries
           now == ConfigNow(call.name)
       IN /\ now.defined
          /\ DOMAIN now.entries = DOMAIN before \cup DOMAIN partial
          /\ \A k \in DOMAIN partial : now.entries[k] = partial[k]
          /\ \A k \in DOMAIN before \ DOMAIN partial : now.entries[k] = before[k]
  /\ \A n \in Names :
       ~pluginConfigs[n].defined =>
         ConfigNow(n) = IF MapHas(plugins, n) THEN MapGet(plugins, n, NoPlugin).config
                        ELSE NoConfig

C26_Witness ==
  /\ call.op = "updateConfig"
  /\ threw = NoError
  /\ ~prev.pluginConfigs[call.name].defined
  /\ ConfigBefore(call.name) = ConfigObject([k \in {"x", "y"} |-> 2])
  /\ call.config = ConfigObject([k \in {"x"} |-> 1])
  /\ ConfigNow(call.name) = ConfigObject([k \in {"x", "y"} |-> IF k = "x" THEN 1 ELSE 2])

\* C25: uninstall of a plugin that is already uninstalled throws no error,
\* changes no state, runtime config or error record and emits no event.
C25_UninstallIdempotent ==
  (call.op = "uninstall" /\ PrevState(call.name) = "uninstalled") =>
    /\ threw = NoError
    /\ plugins = prev.plugins
    /\ pluginStates = prev.pluginStates
    /\ pluginServices = prev.pluginServices
    /\ pluginConfigs = prev.pluginConfigs
    /\ pluginErrors = prev.pluginErrors
    /\ events = <<>>
    /\ writes = <<>>

C25_Witness ==
  /\ call.op = "uninstall"
  /\ PrevState(call.name) = "uninstalled"
  /\ prev.pluginConfigs[call.name] # NoConfig
  /\ CurState(call.name) = "uninstalled"

\* C27: the forward hooks of the active plugins are invoked in registration
\* order, the order of getRegisteredPlugins() restricted to the active
\* plugins, for every history of register, replace, install, activate and
\* deactivate calls that the host awaits one by one.
C27_ForwardHooksInRegistrationOrder ==
  (call.op \in ForwardTriggers /\ awaited) =>
    LET invoked == HookNames(HookOf(call.op))
        registered == MapKeys(prev.plugins)
    IN \A i, j \in 1..Len(invoked) :
         i < j => IndexOf(registered, invoked[i]) < IndexOf(registered, invoked[j])

\* C28: triggerError, awaited by the host, returns the value of the first
\* active plugin whose onError returns a Response and invokes no later
\* onError; an onError that throws is recorded as the error of its plugin and
\* never re-thrown, and the onError hooks of the remaining plugins still run.
C28_ErrorHooksNeverRethrow ==
  (call.op = "triggerError" /\ awaited) =>
    LET invoked == HookNames("onError")
        responded == (call.responders \ call.throwers) \cap Range(invoked)
    IN /\ threw = NoError
       /\ invoked = UpToResponse(PrevActiveWith("onError"), 1)
       /\ responded # {} => /\ responded = {invoked[Len(invoked)]}
                            /\ result = Result("response", invoked[Len(invoked)])
       /\ responded = {} => result = NoResult
       /\ ErrorsRecorded("onError")

C28_Witness ==
  /\ call.op = "triggerError"
  /\ awaited
  /\ ~options.continueOnError
  /\ Len(HookNames("onError")) = 2
  /\ HookNames("onError")[1] \in call.throwers
  /\ HookNames("onError")[2] \in call.responders \ call.throwers
  /\ result = Result("response", HookNames("onError")[2])

\* C29: triggerRoute returns the input list transformed by the onRoute of
\* the active plugins one after another in order; with continueOnError a
\* plugin whose onRoute throws contributes nothing and the next plugin
\* receives the list as it stood; without an active onRoute the result is the
\* input list.
C29_RoutesThreaded ==
  (call.op = "triggerRoute" /\ threw = NoError) =>
    LET applied == SelectSeq(PrevActiveWith("onRoute"), LAMBDA n : n \notin call.throwers)
    IN /\ result = Result("routes", call.routes \o applied)
       /\ PrevActiveWith("onRoute") = <<>> => result = Result("routes", call.routes)
       /\ HookNames("onRoute") = PrevActiveWith("onRoute")

C29_Witness ==
  /\ call.op = "triggerRoute"
  /\ options.continueOnError
  /\ call.routes = <<"r0">>
  /\ Len(PrevActiveWith("onRoute")) = 3
  /\ call.throwers = {PrevActiveWith("onRoute")[2]}
  /\ result = Result("routes", <<"r0", PrevActiveWith("onRoute")[1],
                                 PrevActiveWith("onRoute")[3]>>)

\* the plugins reachable from n through declared dependencies
ReachablePlugins(n) == Closure(plugins, n) \cap Registered(plugins)

\* C30: validateDependencies(name) raises exactly when the plugins reachable
\* from name through declared dependencies contain a cycle or a dependency on
\* an unregistered name; validateDependencies() raises exactly when such a
\* defect exists anywhere in the registry.
C30_ValidateReachable ==
  call.op = "validateDependencies" =>
    /\ (call.given /\ MapHas(plugins, call.name)) =>
         ((threw = NoError) <=> GraphOK(plugins, ReachablePlugins(call.name)))
    /\ ~call.given =>
         ((threw = NoError) <=> GraphOK(plugins, Registered(plugins)))
    /\ pluginStates = prev.pluginStates /\ events = <<>>

C30_Witness ==
  /\ call.op = "validateDependencies"
  /\ call.given
  /\ call.name = "a"
  /\ DepsOf(plugins, "a") = <<"b">>
  /\ MapHas(plugins, "b") /\ DepsOf(plugins, "b") = <<>>
  /\ DepsOf(plugins, "c") = <<"c", "a">>
  /\ threw = NoError

\* ------------------------------------------------------------------------
\* C31: when the watched file of a registered plugin changes and the plugin
\* is installed, active or inactive, the reload emits plugin:uninstalled for
\* it and clears its runtime config before it sets the plugin back to
\* registered and emits plugin:reloaded. No other call runs during the
\* reload.
\* ------------------------------------------------------------------------

\* the positions of the events of the given type the last call emitted for n
EventsAt(type, n) ==
  {i \in DOMAIN events : events[i] = [type |-> type, name |-> n]}

Reloaded ==
  /\ call.op = "reloadPluginFromFile"
  /\ call.loaded
  /\ WasRegistered(call.name)

C31_ReloadUninstallsFirst ==
  (Reloaded /\ awaited /\ PrevState(call.name) \in {"installed", "active", "inactive"}) =>
    /\ CurState(call.name) = "registered"
    /\ pluginConfigs[call.name] = NoConfig
    /\ \E i \in EventsAt("plugin:uninstalled", call.name),
          j \in EventsAt("plugin:reloaded", call.name) : i < j

\* ------------------------------------------------------------------------
\* C32: in every state reached by calls that the host awaits one by one,
\* every active plugin has all of its declared dependencies active.
\* ------------------------------------------------------------------------

C32_ActiveHasActiveDependencies ==
  \A n \in Range(MapKeys(plugins)) :
    (awaited /\ CurState(n) = "active") =>
      \A d \in Range(DepsOf(plugins, n)) : CurState(d) = "active"

\* ------------------------------------------------------------------------
\* C33: if validateDependencies(name) does not raise and name is registered,
\* then install(name), awaited by the host, ends with name installed (active
\* under autoActivate) and records no error for it, whatever else is in the
\* registry.
\* ------------------------------------------------------------------------

\* validateDependencies(name) would have returned when the last call started
ValidatedBefore(n) ==
  validateDependencies([Manager EXCEPT !.plugins = prev.plugins], TRUE, n).threw = NoError

C33_ValidatedInstallSucceeds ==
  (/\ call.op = "install"
   /\ awaited
   /\ WasRegistered(call.name)
   /\ PrevState(call.name) = "registered"
   /\ ValidatedBefore(call.name)) =>
    /\ CurState(call.name) = IF options.autoActivate THEN "active" ELSE "installed"
    /\ EventsAt("plugin:error", call.name) = {}

\* ------------------------------------------------------------------------
\* C34: also when lifecycle calls are made while a trigger call is suspended
\* inside a hook, no hook is invoked on a plugin that is not active at the
\* moment of the invocation.
\* ------------------------------------------------------------------------

\* a call of triggerInit is suspended right after it invoked a hook, the
\* last of hookLog, and the step leaves the lifecycle states as they are, so
\* the states after the step are those at the moment of the invocation
C34_HooksOnlyOnActive ==
  (call.op = "await" /\ call.of = "triggerInit") =>
    CurState(hookLog[Len(hookLog)].name) = "active"

\* ------------------------------------------------------------------------
\* C35: every change of a plugin's state to installed, active, inactive or
\* uninstalled made by install, activate, deactivate, uninstall, use,
\* bootstrap or shutdown comes with exactly one plugin:installed,
\* plugin:activated, plugin:deactivated or plugin:uninstalled event for that
\* plugin, emitted after the state has changed, and no such event is emitted
\* without the state change; uninstalling an active plugin emits
\* plugin:deactivated before plugin:uninstalled.
\* ------------------------------------------------------------------------

StateOfEvent ==
  [e \in {"plugin:installed", "plugin:activated", "plugin:deactivated",
          "plugin:uninstalled"} |->
     CASE e = "plugin:installed" -> "installed"
       [] e = "plugin:activated" -> "active"
       [] e = "plugin:deactivated" -> "inactive"
       [] e = "plugin:uninstalled" -> "uninstalled"]

\* the positions in writes of the changes of state the events are about, and
\* the positions in events of those events
StateChanges ==
  {i \in DOMAIN writes : writes[i].to \in {"installed", "active", "inactive", "uninstalled"}}
StateEvents == {j \in DOMAIN events : events[j].type \in DOMAIN StateOfEvent}

\* the event at j was emitted when the last write was that of its state
AfterItsChange(j) ==
  /\ emittedAt[j] \in StateChanges
  /\ writes[emittedAt[j]].name = events[j].name
  /\ writes[emittedAt[j]].to = StateOfEvent[events[j].type]

C36_StateIffDescriptor ==
  \A n \in Names : MapHas(pluginStates, n) <=> MapHas(plugins, n)

\* ------------------------------------------------------------------------
\* C37: the recorded error of a plugin is removed when the plugin is
\* successfully activated or deactivated, and is left untouched by every
\* operation that targets other plugins and in which its own hook does not
\* fail.
\* ------------------------------------------------------------------------

\* the plugins the method op called with name is made for: the plugin named,
\* every plugin for bootstrap and shutdown, none for a trigger method
TargetsOf(op, name) ==
  IF op \in {"bootstrap", "shutdown"} THEN Names
  ELSE IF op \in Triggers THEN {}
  ELSE {name}

\* the plugins the call c, ended or suspended, is made for
Targets(c) == IF c.op = "await" THEN TargetsOf(c.of, c.name) ELSE TargetsOf(c.op, c.name)

\* the step sets n active or inactive
SwitchedIn(n) ==
  /\ MapGet(pluginStates', n, NoState) \in {"active", "inactive"}
  /\ MapGet(pluginStates', n, NoState) # MapGet(pluginStates, n, NoState)

\* the error of n after the step is that of a hook of n the call has invoked
OwnHookFailed(n) ==
  /\ pluginErrors'[n].kind = "hook"
  /\ pluginErrors'[n].name = n
  /\ \E i \in DOMAIN hookLog' :
       hookLog'[i].name = n /\ hookLog'[i].hook = pluginErrors'[n].state

\* in a step of any call, n loses its error when the step activates or
\* deactivates it, and keeps what is recorded when the call is made for
\* other plugins and no hook of n failed
ErrorFrameStep(n) ==
  /\ SwitchedIn(n) => pluginErrors'[n] = NoError
  /\ (n \notin Targets(call') /\ ~SwitchedIn(n) /\ ~OwnHookFailed(n)) =>
       pluginErrors'[n] = pluginErrors[n]

C37_ErrorFrame == [][\A n \in Names : ErrorFrameStep(n)]_vars

\* deactivate removed the error of its plugin and left that of the other
C37_Witness ==
  \E n \in Names :
    /\ call.op = "deactivate"
    /\ call.name # n
    /\ threw = NoError
    /\ prev.pluginErrors[call.name] # NoError
    /\ pluginErrors[call.name] = NoError
    /\ prev.pluginErrors[n] # NoError
    /\ pluginErrors[n] = prev.pluginErrors[n]

\* ------------------------------------------------------------------------
\* C38: uninstall never removes a plugin from the registry: after
\* uninstall(name), awaited by the host, the name is still listed by
\* getRegisteredPlugins() at its position, getPlugin(name) still returns its
\* descriptor, and register of the name without replace still throws
\* already-registered.
\* ------------------------------------------------------------------------

C38_UninstallKeepsDescriptor ==
  /\ (call.op = "uninstall" /\ awaited /\ WasRegistered(call.name)) =>
       /\ getRegisteredPlugins(Manager) = MapKeys(prev.plugins)
       /\ MapGet(plugins, call.name, NoPlugin) = MapGet(prev.plugins, call.name, NoPlugin)
       /\ MapHas(plugins, call.name)
  /\ (call.op = "register" /\ ~call.replace /\ PrevState(call.name) = "uninstalled") =>
       /\ threw = Err("pluginAlreadyRegistered", call.name, "", "")
       /\ plugins = prev.plugins

\* register threw for the first of two registered names, uninstalled before
C38_Witness ==
  /\ call.op = "register"
  /\ ~call.replace
  /\ PrevState(call.name) = "uninstalled"
  /\ threw # NoError
  /\ Len(plugins) = 2
  /\ getRegisteredPlugins(Manager)[1] = call.name

\* ------------------------------------------------------------------------
\* C39: whenever setConfig(name, config) throws, for an unregistered name, a
\* rejected validation or an onConfigUpdate that throws, the stored runtime
\* config of name is unchanged and no plugin:config:updated event has been
\* emitted.
\* ------------------------------------------------------------------------

C39_ThrowingSetConfigChangesNothing ==
  (call.op = "setConfig" /\ threw # NoError) =>
    /\ pluginConfigs[call.name] = prev.pluginConfigs[call.name]
    /\ EventNames("plugin:config:updated") = <<>>

\* ------------------------------------------------------------------------
\* C40: emit never throws and invokes every listener registered for the
\* event exactly once even when an earlier listener throws; a throwing
\* listener on a lifecycle event never makes the lifecycle operation fail
\* and never prevents or undoes its state change.
\* ------------------------------------------------------------------------

\* one call of each listener of each event of evs from position i, in the
\* order of the events and, for one event, of the registration of its listeners
RECURSIVE Notifications(_, _)
Notifications(evs, i) ==
  IF i > Len(evs) THEN <<>>
  ELSE LET eventListeners == IF evs[i].type \in DOMAIN listeners
                             THEN listeners[evs[i].type] ELSE <<>>
       IN [k \in 1..Len(eventListeners) |->
             [type |-> evs[i].type, name |-> evs[i].name, listener |-> eventListeners[k]]]
          \o Notifications(evs, i + 1)

\* the state the last call, a lifecycle call made in a state that allows it,
\* is to lead its plugin to; "" for any other call
TargetState ==
  CASE call.op = "register" /\ ~WasRegistered(call.name) -> "registered"
    [] call.op = "install" /\ PrevState(call.name) = "registered" -> "installed"
    [] call.op = "activate" /\ PrevState(call.name) \in {"installed", "inactive"} -> "active"
    [] call.op = "deactivate" /\ PrevState(call.name) = "active" -> "inactive"
    [] call.op = "uninstall" /\ PrevState(call.name) \notin {NoState, "uninstalled"} ->
         "uninstalled"
    [] OTHER -> ""

\* the listener was called for an event of the last call
Notified(listener) == {i \in DOMAIN notified : notified[i].listener = listener}

C40_ListenersIsolated ==
  /\ call.op = "emit" => threw = NoError
  /\ call.op # "on" => notified = Notifications(events, 1)
  /\ TargetState # "" => threw = NoError /\ CurState(call.name) = TargetState

\* deactivate called a listener that throws before one that returns, and
\* left its plugin inactive
C40_Witness ==
  /\ call.op = "deactivate"
  /\ TargetState = "inactive"
  /\ notified = <<[type |-> "plugin:deactivated", name |-> call.name, listener |-> "t"],
                  [type |-> "plugin:deactivated", name |-> call.name, listener |-> "l"]>>

====
